---- MODULE Spec2Model ----
(***************************************************************************)
(* A model of the corewar2d simulator: the toroidal Core (core.py), the    *)
(* Redcode value types (redcode.py) and the MARS scheduler and opcode      *)
(* executor (mars.py).                                                     *)
(*                                                                         *)
(* Python values are modelled as follows.                                  *)
(*   Point2D            a record [x, y] of integers                        *)
(*   the string '$'     the record DollarStr (an operand value) or the     *)
(*                      code STEP_DOLLAR (a stepping); it enters the core  *)
(*                      through DEFAULT_INITIAL_INSTRUCTION, whose          *)
(*                      positional arguments are shifted by one             *)
(*   Instruction        a record of its seven compared fields              *)
(*   an uncaught        the variable err holds the exception's class name  *)
(*   exception          and the operation stops where Python stops         *)
(***************************************************************************)
EXTENDS Integers, Sequences, FiniteSets, TLC

VARIABLES
    core,           \* the Core object: size, width, height, limits, instructions
    warriors,       \* the MARS's warrior list; each holds its task_queue
    max_processes,  \* MARS.max_processes
    minimum_separation, \* MARS.minimum_separation
    err,            \* "" or the class name of the exception that left the last call
    events,         \* the core_event calls of the current step() (or of the load)
    nsteps,         \* number of step() calls made so far
    regs,           \* step()'s locals for each warrior the last step() visited
    query           \* the call made on a Core and what it returned, or the driver's
                    \* arguments of a simulation (randomize, number of step() calls)

vars == <<core, warriors, max_processes, minimum_separation, err, events,
          nsteps, regs, query>>

(***************************************************************************)
(* redcode.py: opcodes, modifiers, stepping modes, addressing modes.       *)
(***************************************************************************)
DAT == 0
MOV == 1
ADD == 2
SUB == 3
MUL == 4
DIV == 5
MOD == 6
JMP == 7
JMZ == 8
JMN == 9
DJN == 10
SPL == 11
SLT == 12
CMP == 13
SEQ == 14
SNE == 15
NOP == 16

M_A == 0
M_B == 1
M_AB == 2
M_BA == 3
M_F == 4
M_X == 5
M_I == 6

STEP_NORMAL == 0
STEP_VERTICAL == 1
STEP_BACKWARD == 2
STEP_VERTICAL_BACKWARD == 3
\* The stepping of DEFAULT_INITIAL_INSTRUCTION is the string '$' (core.py:9
\* passes '$' in the stepping position); it equals none of the four modes.
STEP_DOLLAR == -1

IMMEDIATE == 0
DIRECT == 1
INDIRECT_B == 2
PREDEC_B == 3
POSTINC_B == 4
INDIRECT_A == 5
PREDEC_A == 6
POSTINC_A == 7

(***************************************************************************)
(* mars.py: event types.                                                   *)
(***************************************************************************)
EVENT_EXECUTED == 0
EVENT_I_WRITE == 1
EVENT_I_READ == 2
EVENT_A_DEC == 3
EVENT_A_INC == 4
EVENT_B_DEC == 5
EVENT_B_INC == 6
EVENT_A_READ == 7
EVENT_A_WRITE == 8
EVENT_B_READ == 9
EVENT_B_WRITE == 10

AllOpcodes == DAT..NOP
AllModifiers == M_A..M_I
AllSteppings == STEP_NORMAL..STEP_VERTICAL_BACKWARD
AllModes == IMMEDIATE..POSTINC_A

NoErr == ""

\* Python's None.
None == [none |-> TRUE]

\* No warrior has been visited yet.
NoRegs == <<>>

(***************************************************************************)
(* Point2D (redcode.py).                                                   *)
(***************************************************************************)
Point2D(x, y) == [x |-> x, y |-> y]

\* The Python string '$' held where a Point2D is expected.
DollarStr == [str |-> "$"]

IsPoint(v) == DOMAIN v = {"x", "y"}

\* Point2D.__eq__(self, other) for two Point2D.
PointEq(p, q) == p.x = q.x /\ p.y = q.y

\* Point2D.__eq__(self, 0): a Point2D equals the bare integer 0.
PointIsZero(p) == p.x = 0 /\ p.y = 0

\* Point2D.__add__ / __sub__ / __mul__ with a Point2D.
PointAdd(p, q) == Point2D(p.x + q.x, p.y + q.y)
PointSub(p, q) == Point2D(p.x - q.x, p.y - q.y)
PointMul(p, q) == Point2D(p.x * q.x, p.y * q.y)

\* Python's // and % on integers, divisor not 0 (floored; the remainder
\* takes the sign of the divisor).
PyFloorDiv(a, b) == a \div b
PyMod(a, b) == a - b * (a \div b)

\* Point2D.__truediv__ / __mod__ with a Point2D: only x is divided, y is
\* kept; other.x = 0 raises ZeroDivisionError (the caller tests it).
PointDiv(p, q) == Point2D(PyFloorDiv(p.x, q.x), p.y)
PointMod(p, q) == Point2D(PyMod(p.x, q.x), p.y)

(***************************************************************************)
(* Instruction (redcode.py) and the default initial instruction (core.py). *)
(***************************************************************************)
Instruction(opcode, modifier, stepping, a_mode, a_number, b_mode, b_number) ==
    [opcode |-> opcode, modifier |-> modifier, stepping |-> stepping,
     a_mode |-> a_mode, a_number |-> a_number,
     b_mode |-> b_mode, b_number |-> b_number]

\* Instruction('DAT', 'F', '$', 0, '$', 0): the arguments land on (opcode,
\* modifier, stepping, a_mode, a_number, b_mode); b_number defaults to 0,
\* which the b_number property reads as Point2D(0).
DEFAULT_INITIAL_INSTRUCTION ==
    Instruction(DAT, M_F, STEP_DOLLAR, IMMEDIATE, DollarStr, IMMEDIATE, Point2D(0, 0))

\* Instruction.__eq__.  A '$' operand equals only another '$' operand.
NumberEq(u, v) ==
    IF IsPoint(u) /\ IsPoint(v) THEN PointEq(u, v)
    ELSE ~IsPoint(u) /\ ~IsPoint(v)

InstructionEq(i, j) ==
    /\ i.opcode = j.opcode /\ i.modifier = j.modifier
    /\ i.a_mode = j.a_mode /\ NumberEq(i.a_number, j.a_number)
    /\ i.b_mode = j.b_mode /\ NumberEq(i.b_number, j.b_number)
    /\ i.stepping = j.stepping

(***************************************************************************)
(* The default modifier and the Instruction constructor (redcode.py).      *)
(***************************************************************************)
\* The modes '#$@<>' named by the rows of DEFAULT_MODIFIERS.
ICWS88Modes == <<IMMEDIATE, DIRECT, INDIRECT_B, PREDEC_B, POSTINC_B>>

Range(seq) == {seq[i] : i \in DOMAIN seq}

\* DEFAULT_MODIFIERS in the order of the dict: for each group of opcodes the
\* rows (a_modes, b_modes, modifier).
DEFAULT_MODIFIERS ==
    << [opcodes |-> <<DAT, NOP>>,
        rows |-> << <<ICWS88Modes, ICWS88Modes, M_F>> >>],
       [opcodes |-> <<MOV, CMP>>,
        rows |-> << <<<<IMMEDIATE>>, ICWS88Modes, M_AB>>,
                    <<Tail(ICWS88Modes), <<IMMEDIATE>>, M_B>>,
                    <<Tail(ICWS88Modes), Tail(ICWS88Modes), M_I>> >>],
       [opcodes |-> <<ADD, SUB, MUL, DIV, MOD>>,
        rows |-> << <<<<IMMEDIATE>>, ICWS88Modes, M_AB>>,
                    <<Tail(ICWS88Modes), <<IMMEDIATE>>, M_B>>,
                    <<Tail(ICWS88Modes), Tail(ICWS88Modes), M_F>> >>],
       [opcodes |-> <<SLT, SEQ, SNE>>,
        rows |-> << <<<<IMMEDIATE>>, ICWS88Modes, M_AB>>,
                    <<Tail(ICWS88Modes), ICWS88Modes, M_B>> >>],
       [opcodes |-> <<JMP, JMZ, JMN, DJN, SPL>>,
        rows |-> << <<ICWS88Modes, ICWS88Modes, M_B>> >>] >>

\* Instruction.default_modifier: the modifier of the first row, in the
\* order of the table, whose opcodes and modes hold the instruction's;
\* RuntimeError when no row does.  Returns [err, val].
default_modifier(opcode, a_mode, b_mode) ==
    LET Matches(g, r) ==
            /\ opcode \in Range(DEFAULT_MODIFIERS[g].opcodes)
            /\ a_mode \in Range(DEFAULT_MODIFIERS[g].rows[r][1])
            /\ b_mode \in Range(DEFAULT_MODIFIERS[g].rows[r][2])
        Hits == UNION {{<<g, r>> : r \in {k \in DOMAIN DEFAULT_MODIFIERS[g].rows :
                                                Matches(g, k)}} :
                       g \in DOMAIN DEFAULT_MODIFIERS}
        First == CHOOSE h \in Hits :
                    \A k \in Hits : h[1] < k[1] \/ (h[1] = k[1] /\ h[2] <= k[2])
    IN  IF Hits = {}
        THEN [err |-> "RuntimeError", val |-> M_F]
        ELSE [err |-> NoErr, val |-> DEFAULT_MODIFIERS[First[1]].rows[First[2]][3]]

\* Instruction.__init__ with integer opcode, stepping and modes and Point2D
\* numbers; an argument left out (None) is the empty sequence, one given is
\* a sequence of one element.  Returns [err, val].
InstructionNew(opcode, modifier, stepping, a_mode, a_number, b_mode, b_number) ==
    LET am == IF a_mode # <<>> THEN a_mode[1] ELSE DIRECT
        bm == IF b_mode # <<>> THEN b_mode[1]
              ELSE IF opcode = DAT THEN IMMEDIATE ELSE DIRECT
        st == IF stepping # <<>> THEN stepping[1] ELSE STEP_NORMAL
        dm == default_modifier(opcode, am, bm)
    IN  IF modifier # <<>>
        THEN [err |-> NoErr,
              val |-> Instruction(opcode, modifier[1], st, am, a_number, bm, b_number)]
        ELSE IF dm.err # NoErr
        THEN [err |-> dm.err, val |-> None]
        ELSE [err |-> NoErr,
              val |-> Instruction(opcode, dm.val, st, am, a_number, bm, b_number)]

(***************************************************************************)
(* Core (core.py).                                                         *)
(***************************************************************************)
NoCore == None

\* Core.clear: every cell becomes a separate copy of `instruction`.
Clear(c, instruction) ==
    [c EXCEPT !.instructions = [i \in 0..(c.size - 1) |-> instruction]]

\* Core.__init__ without the divisibility check.
CoreInit_unchecked(initial_instruction, size, width, read_limit, write_limit) ==
    [err |-> NoErr,
     core |-> Clear([size |-> size, width |-> width,
                     height |-> size \div width,
                     write_limit |-> IF write_limit # 0 THEN write_limit ELSE size,
                     read_limit |-> IF read_limit # 0 THEN read_limit ELSE size,
                     instructions |-> <<>>],
                    DEFAULT_INITIAL_INSTRUCTION)]

\* Core.__init__ for width >= 1.  The initial_instruction argument is not
\* used: __init__ calls clear() without it.  A limit of 0 stands for None
\* ("write_limit if write_limit else self.size").
\* Returns [err, core].
CoreInit(initial_instruction, size, width, read_limit, write_limit) ==
    IF size % width # 0
    THEN [err |-> "ValueError", core |-> NoCore]
    ELSE [err |-> NoErr,
          core |-> Clear([size |-> size, width |-> width,
                          height |-> size \div width,
                          write_limit |-> IF write_limit # 0 THEN write_limit ELSE size,
                          read_limit |-> IF read_limit # 0 THEN read_limit ELSE size,
                          instructions |-> <<>>],
                         DEFAULT_INITIAL_INSTRUCTION)]

\* Core.trim without the carry of the y overflow into x.
trim_no_carry(c, value) ==
    LET round_x == value.x \div c.width
        x_new   == value.x % c.width
        raw_y   == value.y + round_x
        final_y == raw_y % c.height
    IN  Point2D(x_new, final_y)

\* Core.trim.
trim(c, value) ==
    LET round_x == value.x \div c.width
        x_new   == value.x % c.width
        raw_y   == value.y + round_x
        round_y == value.y \div c.height
        final_y == raw_y % c.height
        final_x == (x_new + round_y) % c.width
    IN  Point2D(final_x, final_y)

\* Core.point_to_index without the carry of the x overflow into y.
point_to_index_no_x_carry(c, point) ==
    LET x_new   == point.x % c.width
        round_y == point.y \div c.height
        final_y == point.y % c.height
        final_x == (x_new + round_y) % c.width
    IN  final_y * c.width + final_x

\* Core.point_to_index without the carry of the y overflow into x.
point_to_index_no_y_carry(c, point) ==
    LET round_x == point.x \div c.width
        x_new   == point.x % c.width
        raw_y   == point.y + round_x
        final_y == raw_y % c.height
    IN  final_y * c.width + x_new

\* Core.point_to_index.
point_to_index(c, point) ==
    LET round_x == point.x \div c.width
        x_new   == point.x % c.width
        raw_y   == point.y + round_x
        round_y == point.y \div c.height
        final_y == raw_y % c.height
        final_x == (x_new + round_y) % c.width
    IN  final_y * c.width + final_x

\* Core.__getitem__ with a Point2D key.
CoreGet(c, key) == c.instructions[point_to_index(c, key)]

\* Core.__getitem__ returns self.instructions[index], the list element
\* itself and not a copy of it: an attribute assignment made on the returned
\* instruction (the a_number / b_number setters of redcode.py) is an
\* assignment on the cell, and on every other cell that holds the same
\* Instruction object.  held[j].ins identifies the object in cell j.
SetReturnedField(c, held, key, field, value) ==
    [c EXCEPT !.instructions =
        [j \in DOMAIN @ |->
            IF held[j].ins = held[point_to_index(c, key)].ins
            THEN [@[j] EXCEPT ![field] = value]
            ELSE @[j]]]

\* Instruction.normalize(size) on one number: x %= size and y %= size on
\* the Point2D object itself; a str is left alone.
NormalizedNumber(number, size) ==
    IF IsPoint(number) THEN Point2D(number.x % size, number.y % size) ELSE number

\* Instruction.normalize(size) called on what Core.__getitem__ returned for
\* key: the two Point2D objects of that instruction are changed in place,
\* and with them every field of every cell that holds one of these
\* objects (the same Instruction stored twice, or a copy() of it).
\* held[j].a_number and held[j].b_number identify the objects of the
\* fields of cell j.
NormalizeReturned(c, held, key, size) ==
    LET mine == held[point_to_index(c, key)]
        Shared(id) == id \in {mine.a_number, mine.b_number}
    IN  [c EXCEPT !.instructions =
            [j \in DOMAIN @ |->
                [@[j] EXCEPT
                    !.a_number = IF Shared(held[j].a_number)
                                 THEN NormalizedNumber(@, size) ELSE @,
                    !.b_number = IF Shared(held[j].b_number)
                                 THEN NormalizedNumber(@, size) ELSE @]]]

\* Core.__setitem__ without the carry of the y overflow into x.
CoreSet_no_y_carry(c, address, instruction) ==
    [c EXCEPT !.instructions[point_to_index_no_y_carry(c, address)] = instruction]

\* Core.__setitem__.
CoreSet(c, address, instruction) ==
    [c EXCEPT !.instructions[point_to_index(c, address)] = instruction]

(***************************************************************************)
(* A Core on its own: construction, point_to_index and trim.               *)
(***************************************************************************)
MaxSize == 6        \* cores of size 1..MaxSize are constructed
MaxWidth == 4       \* with a width of 1..MaxWidth
MaxCoord == 12      \* points with both coordinates in -MaxCoord..MaxCoord
MaxLinear == 205    \* points (k, 0) with k in -MaxLinear..MaxLinear

\* The core of the repository's tests: Core(size=100, width=10).
TestSize == 100
TestWidth == 10

CoreShapes ==
    {<<s, w>> : s \in 1..MaxSize, w \in 1..MaxWidth} \cup {<<TestSize, TestWidth>>}

QueryPoints ==
    {Point2D(x, y) : x \in (-MaxCoord)..MaxCoord, y \in (-MaxCoord)..MaxCoord}
    \cup {Point2D(k, 0) : k \in (-MaxLinear)..MaxLinear}

\* Init draws the constructor's arguments and the point of the call to come;
\* the constructor has run (and may have raised).
InitCore ==
    /\ \E sw \in CoreShapes, p \in QueryPoints :
          LET r == CoreInit(DEFAULT_INITIAL_INSTRUCTION, sw[1], sw[2], 0, 0)
          IN  /\ core = r.core
              /\ err = r.err
              /\ query = [op |-> "init", size |-> sw[1], width |-> sw[2],
                          point |-> p]
    /\ warriors = <<>>
    /\ max_processes = 0
    /\ minimum_separation = 0
    /\ events = <<>>
    /\ nsteps = 0
    /\ regs = NoRegs

\* core.point_to_index(point) on the constructed core.
CallPointToIndex ==
    /\ core # NoCore
    /\ query.op = "init"
    /\ query' = [op |-> "point_to_index", size |-> query.size,
                 width |-> query.width, point |-> query.point,
                 result |-> point_to_index(core, query.point)]
    /\ UNCHANGED <<core, warriors, max_processes, minimum_separation, err, events,
                   nsteps, regs>>

\* core.trim(point) on the constructed core.
CallTrim ==
    /\ core # NoCore
    /\ query.op = "init"
    /\ query' = [op |-> "trim", size |-> query.size, width |-> query.width,
                 point |-> query.point, result |-> trim(core, query.point)]
    /\ UNCHANGED <<core, warriors, max_processes, minimum_separation, err, events,
                   nsteps, regs>>

NextCore == CallPointToIndex \/ CallTrim

SpecCore == InitCore /\ [][NextCore]_vars

\* C7: for every point with signed integer coordinates, point_to_index
\* returns an index in [0, size); trimming a point does not change its
\* index, and trimming a trimmed point changes nothing.
IndexInRangeAndTrimIdempotent ==
    /\ query.op = "point_to_index" => query.result \in 0..(core.size - 1)
    /\ query.op = "trim" =>
          /\ point_to_index(core, query.result) = point_to_index(core, query.point)
          /\ trim(core, query.result) = query.result

\* C7: a point outside the core on both axes has been trimmed.
TrimmedFarPoint ==
    /\ query.op = "trim"
    /\ core.width > 1 /\ core.height > 1
    /\ query.point.x < 0 /\ query.point.y >= 2 * core.height
    /\ query.result # query.point

\* C8: the carry-coupled mapping: the six indices of the claim on the
\* size=100, width=10 core, and index((k, 0)) = k mod size on every core.
CarryCoupledIndex ==
    query.op = "point_to_index" =>
        /\ (core.size = TestSize /\ core.width = TestWidth) =>
              /\ query.point = Point2D(10, 0) => query.result = 10
              /\ query.point = Point2D(-1, 0) => query.result = 99
              /\ query.point = Point2D(0, 10) => query.result = 1
              /\ query.point = Point2D(0, -1) => query.result = 99
              /\ query.point = Point2D(-1, -1) => query.result = 88
              /\ query.point = Point2D(-11, -11) => query.result = 77
        /\ query.point.y = 0 => query.result = query.point.x % core.size

\* C8: index((-11, -11)) has been computed on the size=100, width=10 core.
IndexedOnTestCore ==
    /\ query.op = "point_to_index"
    /\ core.size = TestSize /\ core.width = TestWidth
    /\ query.point = Point2D(-11, -11)
    /\ query.result = 77

\* C9 as stated: on a core with width = size (height = 1) the index of
\* every point p is p.x mod size, whatever p.y is.
LinearCoreIndexIsXModSize ==
    (query.op = "point_to_index" /\ core.width = core.size) =>
        query.result = query.point.x % core.size

\* C9 as amended: on a core with width = size (height = 1) the index of
\* every point p is (p.x + p.y) mod size, which is p.x mod size when
\* p.y = 0.
LinearCoreIndexIsSumModSize ==
    (query.op = "point_to_index" /\ core.width = core.size) =>
        /\ query.result = (query.point.x + query.point.y) % core.size
        /\ query.point.y = 0 => query.result = query.point.x % core.size

\* C9: a point with negative x and non-zero y has been indexed on a core of
\* one row, and its index is not x mod size.
IndexedOffRowOnLinearCore ==
    /\ query.op = "point_to_index"
    /\ core.width = core.size /\ core.size > 1
    /\ query.point.x < 0 /\ query.point.y # 0
    /\ query.result # query.point.x % core.size

\* C10: Core(size, width) raises exactly when size mod width # 0; a
\* constructed core has width * height = size, exactly size cells and both
\* limits equal to size when none is given.
CoreConstruction ==
    /\ (err # NoErr) <=> (query.size % query.width # 0)
    /\ (core = NoCore) <=> (err # NoErr)
    /\ err # NoErr => err = "ValueError"
    /\ core # NoCore =>
          /\ core.width * core.height = core.size
          /\ Cardinality(DOMAIN core.instructions) = core.size
          /\ core.size = query.size /\ core.width = query.width
          /\ core.read_limit = core.size /\ core.write_limit = core.size

\* C10: a construction with a width that does not divide the size (and is
\* smaller than it) has raised.
ConstructionRejected ==
    /\ err = "ValueError"
    /\ core = NoCore
    /\ query.width > 1 /\ query.width < query.size

(***************************************************************************)
(* Cell access on a Core: a caller writes instructions with core[p] = ins, *)
(* reads one with core[q] and assigns to a field of what it got.           *)
(***************************************************************************)
MaxAccessCoord == 2 \* cells are addressed with coordinates -MaxAccessCoord..MaxAccessCoord
MaxWrites == 2      \* at most MaxWrites writes are made before the read

AccessShapes == {<<2, 1>>, <<4, 2>>, <<6, 3>>}

AccessPoints ==
    {Point2D(x, y) : x \in (-MaxAccessCoord)..MaxAccessCoord,
                     y \in (-MaxAccessCoord)..MaxAccessCoord}

\* The instructions the caller writes, and the values it assigns to a field.
AccessInstructions ==
    {Instruction(MOV, M_I, STEP_NORMAL, DIRECT, Point2D(0, 0), DIRECT, Point2D(1, 0)),
     Instruction(ADD, M_AB, STEP_VERTICAL, IMMEDIATE, Point2D(2, 1), PREDEC_B, Point2D(0, -1)),
     Instruction(MOV, M_I, STEP_NORMAL, DIRECT, Point2D(-1, 3), DIRECT, Point2D(5, 0))}

AccessValues == {Point2D(5, 0), Point2D(-1, 3)}

\* The objects a cell of a new core holds: Core.clear puts a copy of its
\* own of the initial instruction in each cell (the instruction is numbered
\* below 0 by its cell); the a_number of DEFAULT_INITIAL_INSTRUCTION is a
\* str and its b_number an int, from which the property makes a new
\* Point2D at every read, so no Point2D object is shared (number 0).
ClearedHeld(c) ==
    [j \in 0..(c.size - 1) |-> [ins |-> -(j + 1), a_number |-> 0, b_number |-> 0]]

\* query.wrote is the last write made (None before the first), query.writes
\* the number of writes; query.point and query.result are the key and the
\* value of the read.  query.held tells which Instruction and Point2D
\* objects each cell holds, query.last those of the last write.
InitAccess ==
    /\ \E sw \in AccessShapes :
          /\ core = CoreInit(DEFAULT_INITIAL_INSTRUCTION, sw[1], sw[2], 0, 0).core
          /\ query = [op |-> "init", wrote |-> None, writes |-> 0,
                      point |-> None, result |-> None,
                      held |-> ClearedHeld(CoreInit(DEFAULT_INITIAL_INSTRUCTION,
                                                    sw[1], sw[2], 0, 0).core),
                      last |-> None]
    /\ err = NoErr
    /\ warriors = <<>>
    /\ max_processes = 0
    /\ minimum_separation = 0
    /\ events = <<>>
    /\ nsteps = 0
    /\ regs = NoRegs

\* The variables after core[p] = ins, where ins is the object(s) h.
Written(p, ins, h) ==
    /\ core' = CoreSet(core, p, ins)
    /\ query' = [query EXCEPT !.op = "write", !.writes = @ + 1,
                              !.wrote = [point |-> p, instruction |-> ins],
                              !.held[point_to_index(core, p)] = h,
                              !.last = h]

\* core[p] = ins, where ins is a newly constructed Instruction (the w-th
\* is numbered w, the Point2D objects of its numbers 2w - 1 and 2w), the
\* Instruction object of the write before, or a copy() of that object
\* (which shares its Point2D objects).
WriteCell ==
    /\ query.op \in {"init", "write"}
    /\ query.writes < MaxWrites
    /\ \E p \in AccessPoints :
          \/ \E ins \in AccessInstructions :
                 Written(p, ins, [ins |-> query.writes + 1,
                                  a_number |-> 2 * query.writes + 1,
                                  b_number |-> 2 * query.writes + 2])
          \/ /\ query.writes > 0
             /\ Written(p, query.wrote.instruction, query.last)
          \/ /\ query.writes > 0
             /\ Written(p, query.wrote.instruction,
                        [query.last EXCEPT !.ins = query.writes + 1])
    /\ UNCHANGED <<warriors, max_processes, minimum_separation, err, events,
                   nsteps, regs>>

\* got = core[q]
ReadCell ==
    /\ query.op \in {"init", "write"}
    /\ \E q \in AccessPoints :
          query' = [query EXCEPT !.op = "read", !.point = q,
                                 !.result = CoreGet(core, q)]
    /\ UNCHANGED <<core, warriors, max_processes, minimum_separation, err, events,
                   nsteps, regs>>

\* The objects the cells hold after a new Point2D (numbered above those
\* of the written instructions) was assigned to `field` of the Instruction
\* object in cell i.
AssignedHeld(held, i, field) ==
    [j \in DOMAIN held |->
        IF held[j].ins = held[i].ins
        THEN [held[j] EXCEPT ![field] = 2 * MaxWrites + 1]
        ELSE held[j]]

\* got.a_number = v or got.b_number = v, on the instruction the read returned
ModifyReturned ==
    /\ query.op = "read"
    /\ \E field \in {"a_number", "b_number"}, v \in AccessValues :
          /\ core' = SetReturnedField(core, query.held, query.point, field, v)
          /\ query' = [query EXCEPT
                          !.op = "modify", !.result[field] = v,
                          !.held = AssignedHeld(@, point_to_index(core, query.point),
                                                field)]
    /\ UNCHANGED <<warriors, max_processes, minimum_separation, err, events,
                   nsteps, regs>>

\* got.normalize(len(core)), on the instruction the read returned, as it
\* is or after the assignment
NormalizeRead ==
    /\ query.op \in {"read", "modify"}
    /\ core' = NormalizeReturned(core, query.held, query.point, core.size)
    /\ query' = [query EXCEPT !.op = "normalize",
                              !.result = CoreGet(core', query.point)]
    /\ UNCHANGED <<warriors, max_processes, minimum_separation, err, events,
                   nsteps, regs>>

NextAccess == WriteCell \/ ReadCell \/ ModifyReturned \/ NormalizeRead

SpecAccess == InitAccess /\ [][NextAccess]_vars

\* Core(size=, width=) and Core(initial_instruction=ins, size=, width=):
\* query.initial is None or the instruction passed.
InitConstruct ==
    /\ \E sw \in AccessShapes,
          ini \in {None,
                   Instruction(DAT, M_F, STEP_NORMAL, DIRECT, Point2D(0, 0),
                               DIRECT, Point2D(0, 0)),
                   Instruction(NOP, M_B, STEP_NORMAL, DIRECT, Point2D(1, 0),
                               DIRECT, Point2D(0, 0))} :
          /\ core = CoreInit(IF ini = None THEN DEFAULT_INITIAL_INSTRUCTION ELSE ini,
                             sw[1], sw[2], 0, 0).core
          /\ query = [op |-> "init", wrote |-> None, writes |-> 0,
                      point |-> None, result |-> None, initial |-> ini,
                      held |-> ClearedHeld(CoreInit(DEFAULT_INITIAL_INSTRUCTION,
                                                    sw[1], sw[2], 0, 0).core),
                      last |-> None]
    /\ err = NoErr
    /\ warriors = <<>>
    /\ max_processes = 0
    /\ minimum_separation = 0
    /\ events = <<>>
    /\ nsteps = 0
    /\ regs = NoRegs

\* A new core whose cells are read and modified in place.
NextConstruct == ReadCell \/ ModifyReturned \/ NormalizeRead

SpecConstruct == InitConstruct /\ [][NextConstruct]_vars

\* C11: a write changes no cell at another index than that of the written
\* point, and a read at any point of the same index as the last written
\* point returns the written instruction.
WriteThenRead ==
    [][/\ query'.op = "write" =>
             \A j \in 0..(core.size - 1) :
                 j # point_to_index(core, query'.wrote.point) =>
                     core'.instructions[j] = core.instructions[j]
       /\ (query'.op = "read" /\ query'.wrote # None) =>
             (point_to_index(core', query'.point)
                     = point_to_index(core', query'.wrote.point) =>
                 query'.result = query'.wrote.instruction)]_vars

\* C11: after two writes to different cells, the cell written last has been
\* read through another point of the same index.
ReadThroughAnotherPoint ==
    /\ query.op = "read" /\ query.writes = 2
    /\ query.point # query.wrote.point
    /\ point_to_index(core, query.point) = point_to_index(core, query.wrote.point)
    /\ query.wrote.point.y >= core.height
    /\ query.result = query.wrote.instruction
    /\ \E j \in 0..(core.size - 1) :
          /\ j # point_to_index(core, query.point)
          /\ core.instructions[j] \in AccessInstructions

\* C12: assigning to a field of the instruction a read returned leaves the
\* core cell at the index of the read point unchanged.
ReadReturnsCopy ==
    [][query'.op = "modify" =>
          core'.instructions[point_to_index(core, query.point)]
              = core.instructions[point_to_index(core, query.point)]]_vars

(***************************************************************************)
(* Construction of an Instruction: a caller chooses the arguments, leaving *)
(* out the modifier or a mode or not, and calls the constructor.           *)
(***************************************************************************)
OptionalModes == {<<>>} \cup {<<mode>> : mode \in AllModes}

InitInstruction ==
    /\ \E opcode \in AllOpcodes, modifier \in {<<>>, <<M_X>>},
          a_mode \in OptionalModes, b_mode \in OptionalModes :
          query = [op |-> "args", opcode |-> opcode, modifier |-> modifier,
                   a_mode |-> a_mode, b_mode |-> b_mode, result |-> None]
    /\ core = NoCore
    /\ err = NoErr
    /\ warriors = <<>>
    /\ max_processes = 0
    /\ minimum_separation = 0
    /\ events = <<>>
    /\ nsteps = 0
    /\ regs = NoRegs

\* Instruction(opcode, modifier, None, a_mode, Point2D(1), b_mode, Point2D(2))
ConstructInstruction ==
    /\ query.op = "args"
    /\ LET r == InstructionNew(query.opcode, query.modifier, <<>>, query.a_mode,
                               Point2D(1, 0), query.b_mode, Point2D(2, 0))
       IN  /\ err' = r.err
           /\ query' = [query EXCEPT !.op = "Instruction", !.result = r.val]
    /\ UNCHANGED <<core, warriors, max_processes, minimum_separation, events,
                   nsteps, regs>>

NextInstruction == ConstructInstruction

SpecInstruction == InitInstruction /\ [][NextInstruction]_vars

\* The table of C13.
ICWSModifier(opcode, a_mode, b_mode) ==
    IF opcode \in {DAT, NOP} THEN M_F
    ELSE IF opcode \in {MOV, CMP}
    THEN IF a_mode = IMMEDIATE THEN M_AB
         ELSE IF b_mode = IMMEDIATE THEN M_B ELSE M_I
    ELSE IF opcode \in {ADD, SUB, MUL, DIV, MOD}
    THEN IF a_mode = IMMEDIATE THEN M_AB
         ELSE IF b_mode = IMMEDIATE THEN M_B ELSE M_F
    ELSE IF opcode \in {SLT, SEQ, SNE}
    THEN IF a_mode = IMMEDIATE THEN M_AB ELSE M_B
    ELSE M_B

\* C13: for every opcode and every pair of the eight addressing modes, the
\* construction of an Instruction without a modifier does not fail and
\* yields the modifier of the ICWS table.
DefaultModifierIsTotal ==
    (query.op = "Instruction" /\ query.modifier = <<>>
            /\ query.a_mode # <<>> /\ query.b_mode # <<>>) =>
        /\ err = NoErr
        /\ query.result # None
        /\ query.result.modifier
               = ICWSModifier(query.opcode, query.a_mode[1], query.b_mode[1])

(***************************************************************************)
(* MARS (mars.py).  A MARS object m is the record                          *)
(*   [core, warriors, max_processes, minimum_separation, events, err];     *)
(* a warrior is [start, instructions, task_queue], its instructions a      *)
(* sequence of [pos, ins] in the insertion order of the Python dict.       *)
(* Energy-mode is off (total_energy = 0) in everything below.              *)
(***************************************************************************)

\* MARS.core_event, as a subclass that records the calls sees it.
core_event(m, warrior, address, event_type) ==
    [m EXCEPT !.events = Append(@, [warrior |-> warrior, address |-> address,
                                    event_type |-> event_type])]

\* core_event called for each <<address, event_type>> of `calls`, in order.
core_events(m, warrior, calls) ==
    [m EXCEPT !.events = @ \o [i \in 1..Len(calls) |->
                                  [warrior |-> warrior, address |-> calls[i][1],
                                   event_type |-> calls[i][2]]]]

\* An exception of class e leaves the running method.
Raise(m, e) == [m EXCEPT !.err = e]

\* A value or the exception raised instead of it.
Ok(v) == [err |-> NoErr, val |-> v]
Fail(e) == [err |-> e, val |-> None]

\* MARS.get_instruction: the cell itself (Core.__getitem__ makes no copy).
get_instruction(m, point) == CoreGet(m.core, point)

\* MARS.set_instruction.
set_instruction(m, point, instruction) ==
    IF ~IsPoint(instruction.a_number) \/ ~IsPoint(instruction.b_number)
    THEN Raise(m, "ValueError")
    ELSE [m EXCEPT !.core = CoreSet(@, point, instruction)]

\* Instruction.a_number / b_number setter applied to the cell at `point`
\* (the cell is mutated in place).  A str without ':' raises ValueError.
SetNumber(m, point, field, value) ==
    IF ~IsPoint(value)
    THEN Raise(m, "ValueError")
    ELSE [m EXCEPT !.core.instructions[point_to_index(m.core, point)][field] = value]

\* MARS.enqueue without the test of the queue's length.
enqueue_unbounded(m, warrior, point) ==
    [m EXCEPT !.warriors[warrior].task_queue = Append(@, trim(m.core, point))]

\* MARS.enqueue appending to the queue of the first warrior, whoever's
\* turn it is.
enqueue_to_first(m, warrior, point) ==
    IF Len(m.warriors[warrior].task_queue) < m.max_processes
    THEN [m EXCEPT !.warriors[1].task_queue = Append(@, trim(m.core, point))]
    ELSE m

\* MARS.enqueue.
enqueue(m, warrior, point) ==
    IF Len(m.warriors[warrior].task_queue) < m.max_processes
    THEN [m EXCEPT !.warriors[warrior].task_queue = Append(@, trim(m.core, point))]
    ELSE m

\* increment_by_stepping moving along the x axis whatever the stepping.
increment_by_stepping_x_only(point, amount, stepping) ==
    IF stepping \notin AllSteppings THEN Fail("ValueError")
    ELSE IF ~IsPoint(point) THEN Fail("AttributeError")
    ELSE Ok(Point2D(point.x + amount, point.y))

\* MARS.increment_by_stepping.  A str point has no attribute x.
increment_by_stepping(point, amount, stepping) ==
    IF stepping \notin AllSteppings THEN Fail("ValueError")
    ELSE IF ~IsPoint(point) THEN Fail("AttributeError")
    ELSE IF stepping = STEP_NORMAL THEN Ok(Point2D(point.x + amount, point.y))
    ELSE IF stepping = STEP_VERTICAL THEN Ok(Point2D(point.x, point.y + amount))
    ELSE IF stepping = STEP_BACKWARD THEN Ok(Point2D(point.x - amount, point.y))
    ELSE Ok(Point2D(point.x, point.y - amount))

\* What evaluate_operand returns, with the MARS as it has become.
Operand(m, read_point, write_point, pip_point) ==
    [m |-> m, read_point |-> read_point, write_point |-> write_point,
     pip_point |-> pip_point]

\* MARS.evaluate_operand.
evaluate_operand(m, pc, number, mode, stepping, warrior) ==
    LET pip_point == Point2D(pc.x + number.x, pc.y + number.y)
        dec_field == IF mode = PREDEC_A THEN "a_number" ELSE "b_number"
        ind_field == IF mode \in {PREDEC_A, INDIRECT_A, POSTINC_A}
                     THEN "a_number" ELSE "b_number"
        \* pre-decrement, if needed; dec is the decremented field
        PreDecrement(dec) ==
            IF dec.err # NoErr
            THEN Raise(m, dec.err)
            ELSE core_event(SetNumber(m, pip_point, dec_field, dec.val),
                            warrior, pip_point,
                            IF mode = PREDEC_A THEN EVENT_A_DEC ELSE EVENT_B_DEC)
        \* Point2D(read_point.x + ptr, 0): int + Point2D is
        \* Point2D.__radd__, which keeps ptr.y and drops number.y.
        Indirect(m1, ptr) ==
            IF ~IsPoint(ptr)
            THEN Operand(Raise(m1, "TypeError"), None, None, None)
            ELSE Operand(m1, Point2D(number.x + ptr.x, ptr.y),
                         Point2D(number.x + ptr.x, ptr.y), pip_point)
        Resolve(m1) ==
            IF m1.err # NoErr THEN Operand(m1, None, None, None)
            ELSE Indirect(m1, get_instruction(m1, pip_point)[ind_field])
    IN  IF mode = IMMEDIATE
        THEN Operand(m, Point2D(0, 0), Point2D(0, 0), None)
        ELSE IF ~IsPoint(number)
        THEN Operand(Raise(m, "ValueError"), None, None, None)
        ELSE IF mode = DIRECT
        THEN Operand(m, number, number, None)
        ELSE Resolve(IF mode \in {PREDEC_A, PREDEC_B}
                     THEN PreDecrement(increment_by_stepping(
                              get_instruction(m, pip_point)[dec_field], -1, stepping))
                     ELSE m)

\* MARS.handle_post_increment.
handle_post_increment(m, pip_point, mode, stepping, warrior) ==
    IF pip_point = None THEN m
    ELSE IF mode \in {POSTINC_A, POSTINC_B}
    THEN LET field == IF mode = POSTINC_A THEN "a_number" ELSE "b_number"
             inc == increment_by_stepping(get_instruction(m, pip_point)[field],
                                          1, stepping)
         IN  IF inc.err # NoErr
             THEN Raise(m, inc.err)
             ELSE core_event(SetNumber(m, pip_point, field, inc.val),
                             warrior, pip_point,
                             IF mode = POSTINC_A THEN EVENT_A_INC ELSE EVENT_B_INC)
    ELSE m

\* enqueue(warrior, increment_by_stepping(pc, amount, stepping)).
enqueue_stepped(m, warrior, pc, amount, stepping) ==
    LET next == increment_by_stepping(pc, amount, stepping)
    IN  IF next.err # NoErr THEN Raise(m, next.err)
        ELSE enqueue(m, warrior, next.val)

\* operator.add/sub/mul/truediv/mod applied to two operand values, each a
\* Point2D or the str '$'.
ArithOp(opcode, u, v) ==
    IF IsPoint(u) /\ IsPoint(v)
    THEN IF opcode = ADD THEN Ok(PointAdd(u, v))
         ELSE IF opcode = SUB THEN Ok(PointSub(u, v))
         ELSE IF opcode = MUL THEN Ok(PointMul(u, v))
         ELSE IF v.x = 0 THEN Fail("ZeroDivisionError")
         ELSE IF opcode = DIV THEN Ok(PointDiv(u, v))
         ELSE Ok(PointMod(u, v))
    ELSE IF ~IsPoint(u) /\ ~IsPoint(v)
    THEN \* '$' + '$' is the str '$$'; every other operator rejects two str
         IF opcode = ADD THEN Ok([str |-> "$$"]) ELSE Fail("TypeError")
    ELSE \* int * str is a str, which Point2D() fails to parse
         IF opcode = MUL THEN Fail("ValueError") ELSE Fail("TypeError")

\* The assignment of do_arithmetic with a normalize that folds the result
\* into the core.
ArithAssign_folded(m, target_point, field, opcode, u, v) ==
    LET r == ArithOp(opcode, u, v)
    IN  IF r.err # NoErr THEN Raise(m, r.err)
        ELSE SetNumber(m, target_point, field,
                       IF IsPoint(r.val) THEN trim(m.core, r.val) ELSE r.val)

\* target_instruction.<field> = self.normalize(op(u, v)); normalize is the
\* identity.
ArithAssign(m, target_point, field, opcode, u, v) ==
    LET r == ArithOp(opcode, u, v)
    IN  IF r.err # NoErr THEN Raise(m, r.err)
        ELSE SetNumber(m, target_point, field, r.val)

\* The assignments of do_arithmetic per modifier, in order:
\* <<field of the target, field of IRB, field of IRA>>.
ArithPlan(modifier) ==
    IF modifier = M_A THEN << <<"a_number", "a_number", "a_number">> >>
    ELSE IF modifier = M_B THEN << <<"b_number", "b_number", "b_number">> >>
    ELSE IF modifier = M_AB THEN << <<"b_number", "b_number", "a_number">> >>
    ELSE IF modifier = M_BA THEN << <<"a_number", "b_number", "a_number">> >>
    ELSE IF modifier = M_X THEN << <<"b_number", "b_number", "a_number">>,
                                   <<"a_number", "a_number", "b_number">> >>
    ELSE << <<"a_number", "a_number", "a_number">>,
            <<"b_number", "b_number", "b_number">> >>

\* The core_event calls of do_arithmetic per modifier.
ArithEvents(modifier, target_point, rpa_point, rpb_point) ==
    IF modifier = M_A
    THEN << <<target_point, EVENT_A_WRITE>>, <<rpa_point, EVENT_A_READ>>,
            <<rpb_point, EVENT_A_READ>> >>
    ELSE IF modifier = M_B
    THEN << <<target_point, EVENT_B_WRITE>>, <<rpa_point, EVENT_B_READ>>,
            <<rpb_point, EVENT_B_READ>> >>
    ELSE IF modifier = M_AB
    THEN << <<target_point, EVENT_B_WRITE>>, <<rpa_point, EVENT_A_READ>>,
            <<rpb_point, EVENT_B_READ>> >>
    ELSE IF modifier = M_BA
    THEN << <<target_point, EVENT_A_WRITE>>, <<rpa_point, EVENT_A_READ>>,
            <<rpb_point, EVENT_B_READ>> >>
    ELSE << <<target_point, EVENT_A_WRITE>>, <<target_point, EVENT_B_WRITE>>,
            <<rpa_point, EVENT_A_READ>>, <<rpb_point, EVENT_A_READ>>,
            <<rpa_point, EVENT_B_READ>>, <<rpb_point, EVENT_B_READ>> >>

\* MARS.do_arithmetic with ira and irb being the cells themselves instead
\* of copies: the second assignment reads what the first has written.
do_arithmetic_aliased(m, warrior, pc, ir, ira, irb, rpa, rpb, wpb, op) ==
    LET target_point == Point2D(pc.x + wpb.x, pc.y + wpb.y)
        rpa_point == Point2D(pc.x + rpa.x, pc.y + rpa.y)
        rpb_point == Point2D(pc.x + rpb.x, pc.y + rpb.y)
        plan == ArithPlan(ir.modifier)
        Finish(m2) ==
            IF m2.err = "ZeroDivisionError"
            THEN [m2 EXCEPT !.err = NoErr]
            ELSE IF m2.err # NoErr THEN m2
            ELSE enqueue_stepped(
                     core_events(m2, warrior,
                                 ArithEvents(ir.modifier, target_point, rpa_point, rpb_point)),
                     warrior, pc, 1, ir.stepping)
        Second(m1) ==
            IF Len(plan) = 1 \/ m1.err # NoErr THEN m1
            ELSE ArithAssign(m1, target_point, plan[2][1], op,
                             get_instruction(m1, rpb_point)[plan[2][2]],
                             get_instruction(m1, rpa_point)[plan[2][3]])
    IN  Finish(Second(ArithAssign(m, target_point, plan[1][1], op,
                                  irb[plan[1][2]], ira[plan[1][3]])))

\* MARS.do_arithmetic; op is the opcode (ADD, SUB, MUL, DIV or MOD).
do_arithmetic(m, warrior, pc, ir, ira, irb, rpa, rpb, wpb, op) ==
    LET target_point == Point2D(pc.x + wpb.x, pc.y + wpb.y)
        rpa_point == Point2D(pc.x + rpa.x, pc.y + rpa.y)
        rpb_point == Point2D(pc.x + rpb.x, pc.y + rpb.y)
        plan == ArithPlan(ir.modifier)
        Finish(m2) ==
            IF m2.err = "ZeroDivisionError"
            THEN \* In case of division by zero, the process is killed
                 [m2 EXCEPT !.err = NoErr]
            ELSE IF m2.err # NoErr THEN m2
            ELSE enqueue_stepped(
                     core_events(m2, warrior,
                                 ArithEvents(ir.modifier, target_point, rpa_point, rpb_point)),
                     warrior, pc, 1, ir.stepping)
        Second(m1) ==
            IF Len(plan) = 1 \/ m1.err # NoErr THEN m1
            ELSE ArithAssign(m1, target_point, plan[2][1], op,
                             irb[plan[2][2]], ira[plan[2][3]])
    IN  Finish(Second(ArithAssign(m, target_point, plan[1][1], op,
                                  irb[plan[1][2]], ira[plan[1][3]])))

\* The assignments of execute_mov per modifier (M_I apart), in order:
\* <<field of the target, field of IRA>>.
MovPlan(modifier) ==
    IF modifier = M_A THEN << <<"a_number", "a_number">> >>
    ELSE IF modifier = M_B THEN << <<"b_number", "b_number">> >>
    ELSE IF modifier = M_AB THEN << <<"b_number", "a_number">> >>
    ELSE IF modifier = M_BA THEN << <<"a_number", "b_number">> >>
    ELSE IF modifier = M_F THEN << <<"a_number", "a_number">>,
                                   <<"b_number", "b_number">> >>
    ELSE << <<"b_number", "a_number">>, <<"a_number", "b_number">> >>

\* The core_event calls of execute_mov per modifier.
MovEvents(modifier, target_point, rpa_point) ==
    IF modifier = M_A
    THEN << <<rpa_point, EVENT_A_READ>>, <<target_point, EVENT_A_WRITE>> >>
    ELSE IF modifier = M_B
    THEN << <<rpa_point, EVENT_B_READ>>, <<target_point, EVENT_B_WRITE>> >>
    ELSE IF modifier = M_AB
    THEN << <<rpa_point, EVENT_A_READ>>, <<target_point, EVENT_B_WRITE>> >>
    ELSE IF modifier = M_BA
    THEN << <<rpa_point, EVENT_B_READ>>, <<target_point, EVENT_A_WRITE>> >>
    ELSE IF modifier = M_I
    THEN << <<rpa_point, EVENT_I_READ>>, <<target_point, EVENT_I_WRITE>> >>
    ELSE << <<rpa_point, EVENT_A_READ>>, <<rpa_point, EVENT_B_READ>>,
            <<target_point, EVENT_A_WRITE>>, <<target_point, EVENT_B_WRITE>> >>

\* MARS.execute_mov.
execute_mov(m, warrior, pc, ir, ira, rpa, wpb) ==
    LET target_point == Point2D(pc.x + wpb.x, pc.y + wpb.y)
        rpa_point == Point2D(pc.x + rpa.x, pc.y + rpa.y)
        plan == MovPlan(ir.modifier)
        Finish(m2) ==
            IF m2.err # NoErr THEN m2
            ELSE enqueue_stepped(
                     core_events(m2, warrior,
                                 MovEvents(ir.modifier, target_point, rpa_point)),
                     warrior, pc, 1, ir.stepping)
        Second(m1) ==
            IF Len(plan) = 1 \/ m1.err # NoErr THEN m1
            ELSE SetNumber(m1, target_point, plan[2][1], ira[plan[2][2]])
    IN  Finish(IF ir.modifier = M_I
               THEN set_instruction(m, target_point, ira)
               ELSE Second(SetNumber(m, target_point, plan[1][1], ira[plan[1][2]])))

\* value == 0 and value != 0 for an operand value; '$' == 0 is False.
IsZero(v) == IsPoint(v) /\ PointIsZero(v)

\* The core_event calls of execute_jmz and execute_jmn per modifier.
JumpEvents(modifier, rpa_point) ==
    IF modifier \in {M_A, M_BA} THEN << <<rpa_point, EVENT_A_READ>> >>
    ELSE IF modifier \in {M_B, M_AB} THEN << <<rpa_point, EVENT_B_READ>> >>
    ELSE << <<rpa_point, EVENT_A_READ>>, <<rpa_point, EVENT_B_READ>> >>

\* MARS.execute_jmz judging a field by its x alone.
execute_jmz_x_only(m, warrior, pc, ir, irb, rpa) ==
    LET rpa_point == Point2D(pc.x + rpa.x, pc.y + rpa.y)
        next_point == increment_by_stepping(pc, 1, ir.stepping)
        ZeroX(v) == IsPoint(v) /\ v.x = 0
        jump == IF ir.modifier \in {M_A, M_BA} THEN ZeroX(irb.a_number)
                ELSE IF ir.modifier \in {M_B, M_AB} THEN ZeroX(irb.b_number)
                ELSE ZeroX(irb.a_number) /\ ZeroX(irb.b_number)
    IN  IF next_point.err # NoErr THEN Raise(m, next_point.err)
        ELSE core_events(enqueue(m, warrior,
                                 IF jump THEN rpa_point ELSE next_point.val),
                         warrior, JumpEvents(ir.modifier, rpa_point))

\* MARS.execute_jmz.
execute_jmz(m, warrior, pc, ir, irb, rpa) ==
    LET rpa_point == Point2D(pc.x + rpa.x, pc.y + rpa.y)
        next_point == increment_by_stepping(pc, 1, ir.stepping)
        jump == IF ir.modifier \in {M_A, M_BA} THEN IsZero(irb.a_number)
                ELSE IF ir.modifier \in {M_B, M_AB} THEN IsZero(irb.b_number)
                ELSE NumberEq(irb.a_number, irb.b_number) /\ IsZero(irb.b_number)
    IN  IF next_point.err # NoErr THEN Raise(m, next_point.err)
        ELSE core_events(enqueue(m, warrior,
                                 IF jump THEN rpa_point ELSE next_point.val),
                         warrior, JumpEvents(ir.modifier, rpa_point))

\* MARS.execute_jmn.
execute_jmn(m, warrior, pc, ir, irb, rpa) ==
    LET rpa_point == Point2D(pc.x + rpa.x, pc.y + rpa.y)
        next_point == increment_by_stepping(pc, 1, ir.stepping)
        jump == IF ir.modifier \in {M_A, M_BA} THEN ~IsZero(irb.a_number)
                ELSE IF ir.modifier \in {M_B, M_AB} THEN ~IsZero(irb.b_number)
                ELSE ~IsZero(irb.a_number) \/ ~IsZero(irb.b_number)
    IN  IF next_point.err # NoErr THEN Raise(m, next_point.err)
        ELSE core_events(enqueue(m, warrior,
                                 IF jump THEN rpa_point ELSE next_point.val),
                         warrior, JumpEvents(ir.modifier, rpa_point))

\* value -= 1 on an operand value: Point2D.__sub__(1); a str raises TypeError.
Decrement(v) ==
    IF IsPoint(v) THEN Ok(Point2D(v.x - 1, v.y)) ELSE Fail("TypeError")

\* self.get_instruction(target_point).<field> -= 1
DecrementCell(m, target_point, field) ==
    LET d == Decrement(get_instruction(m, target_point)[field])
    IN  IF d.err # NoErr THEN Raise(m, d.err)
        ELSE SetNumber(m, target_point, field, d.val)

\* The core_event calls of execute_djn per modifier.
DjnEvents(modifier, rpa_point) ==
    IF modifier \in {M_A, M_BA}
    THEN << <<rpa_point, EVENT_A_READ>>, <<rpa_point, EVENT_A_DEC>> >>
    ELSE IF modifier \in {M_B, M_AB}
    THEN << <<rpa_point, EVENT_B_READ>>, <<rpa_point, EVENT_B_DEC>> >>
    ELSE << <<rpa_point, EVENT_A_READ>>, <<rpa_point, EVENT_B_READ>>,
            <<rpa_point, EVENT_A_DEC>>, <<rpa_point, EVENT_B_DEC>> >>

\* MARS.execute_djn.  irb is step()'s private copy; the cell at
\* target_point and irb are decremented separately, in the code's order.
execute_djn(m, warrior, pc, ir, irb, rpa, wpb) ==
    LET target_point == Point2D(pc.x + wpb.x, pc.y + wpb.y)
        rpa_point == Point2D(pc.x + rpa.x, pc.y + rpa.y)
        next_point == increment_by_stepping(pc, 1, ir.stepping)
        both == ir.modifier \in {M_F, M_X, M_I}
        first == IF ir.modifier \in {M_B, M_AB} THEN "b_number" ELSE "a_number"
        d1 == Decrement(irb[first])
        d2 == Decrement(irb.b_number)
        jump == IF both THEN ~PointIsZero(d1.val) \/ ~PointIsZero(d2.val)
                ELSE ~PointIsZero(d1.val)
        Finish(m3) ==
            IF m3.err # NoErr THEN m3
            ELSE core_events(enqueue(m3, warrior,
                                     IF jump THEN rpa_point ELSE next_point.val),
                             warrior, DjnEvents(ir.modifier, rpa_point))
        \* irb.b_number -= 1 after the target's b_number
        Fourth(m2) ==
            IF m2.err # NoErr \/ ~both THEN m2
            ELSE IF d2.err # NoErr THEN Raise(m2, d2.err)
            ELSE m2
        \* irb.<first> -= 1 after the target's, then the target's b_number
        Second(m1) ==
            IF m1.err # NoErr THEN m1
            ELSE IF d1.err # NoErr THEN Raise(m1, d1.err)
            ELSE IF both THEN DecrementCell(m1, target_point, "b_number")
            ELSE m1
    IN  IF next_point.err # NoErr THEN Raise(m, next_point.err)
        ELSE Finish(Fourth(Second(DecrementCell(m, target_point, first))))

\* operator.lt / operator.eq / operator.ne on two operand values.
\* Point2D.__lt__ compares x only; a Point2D against '$' raises TypeError
\* under <, and is unequal under == and !=; '$' < '$' is False.
CmpOp(opcode, u, v) ==
    IF opcode = SLT
    THEN IF IsPoint(u) /\ IsPoint(v) THEN Ok(u.x < v.x)
         ELSE IF ~IsPoint(u) /\ ~IsPoint(v) THEN Ok(FALSE)
         ELSE Fail("TypeError")
    ELSE IF opcode = SNE THEN Ok(~NumberEq(u, v))
    ELSE Ok(NumberEq(u, v))

\* cmp(u1, v1) and cmp(u2, v2): the second is evaluated only if the first
\* is true.
CmpAnd(opcode, u1, v1, u2, v2) ==
    LET r1 == CmpOp(opcode, u1, v1)
    IN  IF r1.err # NoErr THEN r1
        ELSE IF ~r1.val THEN r1
        ELSE CmpOp(opcode, u2, v2)

\* The core_event calls of do_comparison per modifier.
CmpEvents(modifier, rpa_point, rpb_point) ==
    IF modifier = M_A
    THEN << <<rpa_point, EVENT_A_READ>>, <<rpb_point, EVENT_A_READ>> >>
    ELSE IF modifier = M_B
    THEN << <<rpa_point, EVENT_B_READ>>, <<rpb_point, EVENT_B_READ>> >>
    ELSE IF modifier = M_AB
    THEN << <<rpa_point, EVENT_A_READ>>, <<rpb_point, EVENT_B_READ>> >>
    ELSE IF modifier = M_BA
    THEN << <<rpa_point, EVENT_B_READ>>, <<rpb_point, EVENT_A_READ>> >>
    ELSE IF modifier = M_I
    THEN << <<rpa_point, EVENT_I_READ>>, <<rpb_point, EVENT_I_READ>> >>
    ELSE << <<rpa_point, EVENT_A_READ>>, <<rpb_point, EVENT_A_READ>>,
            <<rpa_point, EVENT_B_READ>>, <<rpb_point, EVENT_B_READ>> >>

\* MARS.do_comparison; cmp is the opcode (SLT, CMP, SEQ or SNE).  With
\* modifier I the instructions are compared with ==, whatever cmp is.
do_comparison(m, warrior, pc, ir, ira, irb, rpa, rpb, cmp) ==
    LET rpa_point == Point2D(pc.x + rpa.x, pc.y + rpa.y)
        rpb_point == Point2D(pc.x + rpb.x, pc.y + rpb.y)
        next_point == increment_by_stepping(pc, 1, ir.stepping)
        jump_point == increment_by_stepping(pc, 2, ir.stepping)
        Finish(result) ==
            IF result.err # NoErr THEN Raise(m, result.err)
            ELSE core_events(enqueue(m, warrior,
                                     IF result.val THEN jump_point.val
                                                   ELSE next_point.val),
                             warrior, CmpEvents(ir.modifier, rpa_point, rpb_point))
    IN  IF next_point.err # NoErr THEN Raise(m, next_point.err)
        ELSE Finish(
            IF ir.modifier = M_A THEN CmpOp(cmp, ira.a_number, irb.a_number)
            ELSE IF ir.modifier = M_B THEN CmpOp(cmp, ira.b_number, irb.b_number)
            ELSE IF ir.modifier = M_AB THEN CmpOp(cmp, ira.a_number, irb.b_number)
            ELSE IF ir.modifier = M_BA THEN CmpOp(cmp, ira.b_number, irb.a_number)
            ELSE IF ir.modifier = M_F
            THEN CmpAnd(cmp, ira.a_number, irb.a_number, ira.b_number, irb.b_number)
            ELSE IF ir.modifier = M_X
            THEN CmpAnd(cmp, ira.a_number, irb.b_number, ira.b_number, irb.a_number)
            ELSE Ok(InstructionEq(ira, irb)))

\* The SPL branch with the second enqueue missing.
execute_spl_no_split(m, warrior, pc, ir, rpa) ==
    enqueue_stepped(m, warrior, pc, 1, ir.stepping)

\* The SPL branch with the two enqueues exchanged.
execute_spl_target_first(m, warrior, pc, ir, rpa) ==
    enqueue_stepped(enqueue(m, warrior, Point2D(pc.x + rpa.x, pc.y + rpa.y)),
                    warrior, pc, 1, ir.stepping)

\* MARS.execute_instruction, the SPL branch: the normal successor is
\* enqueued first, then the split target.
execute_spl(m, warrior, pc, ir, rpa) ==
    LET m1 == enqueue_stepped(m, warrior, pc, 1, ir.stepping)
    IN  IF m1.err # NoErr THEN m1
        ELSE enqueue(m1, warrior, Point2D(pc.x + rpa.x, pc.y + rpa.y))

\* MARS.execute_instruction with a DAT that continues like a NOP.
execute_instruction_dat_continues(m, warrior, pc, ir, ira, irb, rpa, rpb, wpb) ==
    IF ir.opcode = MOV THEN execute_mov(m, warrior, pc, ir, ira, rpa, wpb)
    ELSE IF ir.opcode \in {ADD, SUB, MUL, DIV, MOD}
    THEN do_arithmetic(m, warrior, pc, ir, ira, irb, rpa, rpb, wpb, ir.opcode)
    ELSE IF ir.opcode = JMP
    THEN enqueue(m, warrior, Point2D(pc.x + rpa.x, pc.y + rpa.y))
    ELSE IF ir.opcode = JMZ THEN execute_jmz(m, warrior, pc, ir, irb, rpa)
    ELSE IF ir.opcode = JMN THEN execute_jmn(m, warrior, pc, ir, irb, rpa)
    ELSE IF ir.opcode = DJN THEN execute_djn(m, warrior, pc, ir, irb, rpa, wpb)
    ELSE IF ir.opcode = SPL THEN execute_spl(m, warrior, pc, ir, rpa)
    ELSE IF ir.opcode \in {SLT, CMP, SEQ, SNE}
    THEN do_comparison(m, warrior, pc, ir, ira, irb, rpa, rpb, ir.opcode)
    ELSE enqueue_stepped(m, warrior, pc, 1, ir.stepping)

\* MARS.execute_instruction.
execute_instruction(m, warrior, pc, ir, ira, irb, rpa, rpb, wpb) ==
    IF ir.opcode = DAT THEN m
    ELSE IF ir.opcode = MOV THEN execute_mov(m, warrior, pc, ir, ira, rpa, wpb)
    ELSE IF ir.opcode \in {ADD, SUB, MUL, DIV, MOD}
    THEN do_arithmetic(m, warrior, pc, ir, ira, irb, rpa, rpb, wpb, ir.opcode)
    ELSE IF ir.opcode = JMP
    THEN enqueue(m, warrior, Point2D(pc.x + rpa.x, pc.y + rpa.y))
    ELSE IF ir.opcode = JMZ THEN execute_jmz(m, warrior, pc, ir, irb, rpa)
    ELSE IF ir.opcode = JMN THEN execute_jmn(m, warrior, pc, ir, irb, rpa)
    ELSE IF ir.opcode = DJN THEN execute_djn(m, warrior, pc, ir, irb, rpa, wpb)
    ELSE IF ir.opcode = SPL THEN execute_spl(m, warrior, pc, ir, rpa)
    ELSE IF ir.opcode \in {SLT, CMP, SEQ, SNE}
    THEN do_comparison(m, warrior, pc, ir, ira, irb, rpa, rpb, ir.opcode)
    ELSE enqueue_stepped(m, warrior, pc, 1, ir.stepping)

(***************************************************************************)
(* Warrior (redcode.py) and the loading of warriors (mars.py).             *)
(***************************************************************************)
SetMin(S) == CHOOSE v \in S : \A u \in S : v <= u
SetMax(S) == CHOOSE v \in S : \A u \in S : v >= u

\* Warrior(start=start) with the given instructions and an empty queue.
Warrior(start, instructions) ==
    [start |-> start, instructions |-> instructions, task_queue |-> <<>>]

\* Warrior.get_bounds.
get_bounds(w) ==
    IF Len(w.instructions) = 0
    THEN <<Point2D(0, 0), Point2D(0, 0)>>
    ELSE LET xs == {w.instructions[i].pos.x : i \in 1..Len(w.instructions)}
             ys == {w.instructions[i].pos.y : i \in 1..Len(w.instructions)}
         IN  <<Point2D(SetMin(xs), SetMin(ys)), Point2D(SetMax(xs), SetMax(ys))>>

\* Warrior.get_size.
get_size(w) ==
    LET b == get_bounds(w)
    IN  Point2D(b[2].x - b[1].x + 1, b[2].y - b[1].y + 1)

\* load_warriors: max_offset of the n-th warrior (n counts from 1).
max_offset(m, n) ==
    LET space == m.core.size \div Len(m.warriors)
        warrior_size == get_size(m.warriors[n])
        warrior_grid_size == warrior_size.x + warrior_size.y * m.core.width
    IN  space - warrior_grid_size - m.minimum_separation

\* load_warriors: the position the n-th warrior is loaded at; offset is
\* what randint(0, max_offset) returned.
warrior_position(m, n, randomize, offset) ==
    LET space == m.core.size \div Len(m.warriors)
        base_pos == (n - 1) * space
    IN  IF randomize /\ max_offset(m, n) > 0
        THEN Point2D((base_pos + offset) % m.core.width,
                     (base_pos + offset) \div m.core.width)
        ELSE Point2D(base_pos % m.core.width, base_pos \div m.core.width)

\* load_warriors: the copy of the instructions k.. of warrior n to the core.
RECURSIVE CopyInstructions(_, _, _, _)
CopyInstructions(m, n, position, k) ==
    IF k > Len(m.warriors[n].instructions) \/ m.err # NoErr THEN m
    ELSE LET e == m.warriors[n].instructions[k]
             abs_pos == Point2D((position.x + e.pos.x) % m.core.width,
                                (position.y + e.pos.y) % m.core.height)
             m1 == set_instruction(m, abs_pos, e.ins)
         IN  CopyInstructions(IF m1.err # NoErr THEN m1
                              ELSE core_event(m1, n, abs_pos, EVENT_I_WRITE),
                              n, position, k + 1)

\* load_warriors: the loop body for warriors n.. ; offsets[n] is the random
\* offset drawn for warrior n.
RECURSIVE LoadFrom(_, _, _, _)
LoadFrom(m, n, randomize, offsets) ==
    IF n > Len(m.warriors) \/ m.err # NoErr THEN m
    ELSE LET position == warrior_position(m, n, randomize, offsets[n])
             start_pos == Point2D(position.x + m.warriors[n].start.x,
                                  position.y + m.warriors[n].start.y)
             m1 == [m EXCEPT !.warriors[n].task_queue = <<start_pos>>]
         IN  LoadFrom(CopyInstructions(m1, n, position, 1), n + 1, randomize, offsets)

\* MARS.load_warriors (energy mode off).
load_warriors(m, randomize, offsets) ==
    IF Len(m.warriors) = 0 THEN Raise(m, "ZeroDivisionError")
    ELSE LoadFrom(m, 1, randomize, offsets)

\* MARS.__init__ with total_energy = 0; max_processes 0 stands for None.
MARSInit(c, ws, min_separation, randomize, max_procs, offsets) ==
    LET m == [core |-> c, warriors |-> ws,
              max_processes |-> IF max_procs # 0 THEN max_procs ELSE c.size,
              minimum_separation |-> min_separation,
              events |-> <<>>, err |-> NoErr]
    IN  IF Len(ws) > 0 THEN load_warriors(m, randomize, offsets) ELSE m


(***************************************************************************)
(* MARS.step.                                                              *)
(***************************************************************************)
\* step()'s locals for one warrior, as far as the loop body got; target is
\* the cell at pc + wpb as execute_instruction finds it (None if the
\* instruction was not executed).
Registers(warrior, queue_before, pc, ir, ira, irb, rpa, rpb, wpb, executed, target) ==
    [warrior |-> warrior, queue_before |-> queue_before, pc |-> pc, ir |-> ir,
     ira |-> ira, irb |-> irb, rpa |-> rpa, rpb |-> rpb, wpb |-> wpb,
     executed |-> executed, target |-> target]

\* The body of step()'s loop for a warrior whose task queue is not empty.
\* Returns [m, reg].
StepWarrior(m, warrior) ==
    LET queue == m.warriors[warrior].task_queue
        pc == Head(queue)
        \* core_event(EXECUTED) and execute_instruction, after the B
        \* post-increment has left the MARS mb
        Execute(mb, ir, ira, irb, rpa, rpb, wpb) ==
            IF mb.err # NoErr
            THEN [m |-> mb,
                  reg |-> Registers(warrior, queue, pc, ir, ira, irb, rpa, rpb, wpb, FALSE, None)]
            ELSE [m |-> execute_instruction(core_event(mb, warrior, pc, EVENT_EXECUTED),
                                            warrior, pc, ir, ira, irb, rpa, rpb, wpb),
                  reg |-> Registers(warrior, queue, pc, ir, ira, irb, rpa, rpb, wpb, TRUE,
                                    get_instruction(mb, Point2D(pc.x + wpb.x,
                                                                pc.y + wpb.y)))]
        \* irb = copy(...) and the B post-increment, b being what
        \* evaluate_operand returned for the B-operand
        CaptureB(b, ir, ira, rpa) ==
            IF b.m.err # NoErr
            THEN [m |-> b.m,
                  reg |-> Registers(warrior, queue, pc, ir, ira, None, rpa, None, None, FALSE, None)]
            ELSE Execute(handle_post_increment(b.m, b.pip_point, ir.b_mode,
                                               ir.stepping, warrior),
                         ir, ira,
                         get_instruction(b.m, Point2D(pc.x + b.read_point.x,
                                                      pc.y + b.read_point.y)),
                         rpa, b.read_point, b.write_point)
        \* evaluate the B-operand, after the A post-increment has left ma
        OperandB(ma, ir, ira, rpa) ==
            IF ma.err # NoErr
            THEN [m |-> ma,
                  reg |-> Registers(warrior, queue, pc, ir, ira, None, rpa, None, None, FALSE, None)]
            ELSE CaptureB(evaluate_operand(ma, pc, ir.b_number, ir.b_mode,
                                           ir.stepping, warrior),
                          ir, ira, rpa)
        \* ira = copy(...) and the A post-increment, a being what
        \* evaluate_operand returned for the A-operand
        CaptureA(a, ir) ==
            IF a.m.err # NoErr
            THEN [m |-> a.m,
                  reg |-> Registers(warrior, queue, pc, ir, None, None, None, None, None, FALSE, None)]
            ELSE OperandB(handle_post_increment(a.m, a.pip_point, ir.a_mode,
                                                ir.stepping, warrior),
                          ir,
                          get_instruction(a.m, Point2D(pc.x + a.read_point.x,
                                                       pc.y + a.read_point.y)),
                          a.read_point)
        \* evaluate the A-operand with ir, the copy of the current instruction
        OperandA(m0, ir) ==
            CaptureA(evaluate_operand(m0, pc, ir.a_number, ir.a_mode,
                                      ir.stepping, warrior),
                     ir)
        \* ir = copy(self.get_instruction(pc)), after the pop has left m0
        Fetch(m0) == OperandA(m0, get_instruction(m0, pc))
    IN  Fetch([m EXCEPT !.warriors[warrior].task_queue = Tail(@)])

\* step()'s loop from warrior n on; rs collects the registers of the
\* warriors visited.  An exception ends the loop (StepOn gets what the
\* loop body returned for warrior n).
RECURSIVE StepFrom(_, _, _)
RECURSIVE StepOn(_, _, _)
StepOn(r, rs, n) ==
    IF r.m.err # NoErr THEN [m |-> r.m, regs |-> Append(rs, r.reg)]
    ELSE StepFrom(r.m, Append(rs, r.reg), n + 1)

StepFrom(m, rs, n) ==
    IF n > Len(m.warriors) THEN [m |-> m, regs |-> rs]
    ELSE IF Len(m.warriors[n].task_queue) = 0 THEN StepFrom(m, rs, n + 1)
    ELSE StepOn(StepWarrior(m, n), rs, n)

\* MARS.step.
step(m) == StepFrom(m, <<>>, 1)

(***************************************************************************)
(* The simulator: a MARS is constructed with its warriors loaded, then     *)
(* step() is called again and again.                                       *)
(***************************************************************************)
MaxSteps == 4       \* step() is called at most MaxSteps times
MaxProcs == 3       \* max_processes is None (0) or 1..MaxProcs
MaxOperand == 1     \* operand values of the generated instructions: -1..MaxOperand
OneSteps == 2       \* step() calls made on a warrior of one generated instruction

\* An instruction with default stepping and one-dimensional operands.
Ins(opcode, modifier, a_mode, a, b_mode, b) ==
    Instruction(opcode, modifier, STEP_NORMAL, a_mode, Point2D(a, 0),
                b_mode, Point2D(b, 0))

\* A warrior of one instruction, and one of an instruction followed by a
\* second cell.
Program1(ins) == Warrior(Point2D(0, 0), << [pos |-> Point2D(0, 0), ins |-> ins] >>)
Program2(ins, next) ==
    Warrior(Point2D(0, 0), << [pos |-> Point2D(0, 0), ins |-> ins],
                              [pos |-> Point2D(1, 0), ins |-> next] >>)

SplZero == Ins(SPL, M_B, DIRECT, 0, DIRECT, 0)

\* The arguments of Core() and MARS(), and the number of step() calls the
\* driver will make.
Scenario(size, width, max_procs, min_separation, randomize, ws, steps) ==
    [size |-> size, width |-> width, max_procs |-> max_procs,
     min_separation |-> min_separation, randomize |-> randomize, ws |-> ws,
     steps |-> steps]

\* The offsets randint(0, max_offset) can return for the warriors of a
\* MARS (0 where no offset is drawn).
Offsets(m, randomize) ==
    {o \in [1..Len(m.warriors) -> 0..m.core.size] :
        \A n \in 1..Len(m.warriors) :
            IF randomize /\ max_offset(m, n) > 0
            THEN o[n] <= max_offset(m, n) ELSE o[n] = 0}

\* The variables hold the MARS m, constructed for scenario sc.
Constructed(m, sc) ==
    /\ core = m.core
    /\ warriors = m.warriors
    /\ max_processes = m.max_processes
    /\ minimum_separation = m.minimum_separation
    /\ err = m.err
    /\ events = m.events
    /\ nsteps = 0
    /\ regs = NoRegs
    /\ query = [op |-> "MARS", randomize |-> sc.randomize, steps |-> sc.steps,
                total_energy |-> 0]

\* The MARS of scenario sc before its warriors are loaded.
Unloaded(sc) ==
    [core |-> CoreInit(DEFAULT_INITIAL_INSTRUCTION, sc.size, sc.width, 0, 0).core,
     warriors |-> sc.ws,
     max_processes |-> IF sc.max_procs # 0 THEN sc.max_procs ELSE sc.size,
     minimum_separation |-> sc.min_separation,
     events |-> <<>>, err |-> NoErr]

\* The state after Core(size, width) and MARS(core, warriors, ...) of a
\* scenario.
InitScenario(sc) ==
    \E o \in Offsets(Unloaded(sc), sc.randomize) :
        Constructed(MARSInit(CoreInit(DEFAULT_INITIAL_INSTRUCTION,
                                      sc.size, sc.width, 0, 0).core,
                             sc.ws, sc.min_separation, sc.randomize,
                             sc.max_procs, o),
                    sc)

\* SPL $0, $0 alone in cores of several shapes.
InitSpl ==
    \E sw \in {<<1, 1>>, <<2, 1>>, <<4, 4>>, <<4, 2>>, <<6, 3>>},
       p \in 0..MaxProcs, r \in BOOLEAN :
        InitScenario(Scenario(sw[1], sw[2], p, 0, r, <<Program1(SplZero)>>, MaxSteps))

\* The data cell that follows a generated instruction.
DataCell(d) == Ins(DAT, M_F, IMMEDIATE, d, IMMEDIATE, 1 - d)

\* One instruction followed by a data cell, alone in a 4 x 2 core: every
\* opcode and modifier with the basic addressing modes, and every pair of
\* addressing modes with a few opcodes.
InitOne ==
    \E op \in AllOpcodes, md \in AllModifiers, am \in AllModes, bm \in AllModes,
       a \in (-1)..MaxOperand, b \in 0..MaxOperand, d \in 0..1 :
        /\ \/ am \in {IMMEDIATE, DIRECT, INDIRECT_B} /\ bm \in {IMMEDIATE, DIRECT, INDIRECT_A}
           \/ op \in {DAT, MOV, ADD, JMZ} /\ md = M_F
        /\ InitScenario(Scenario(8, 4, 2, 0, FALSE,
                                 <<Program2(Ins(op, md, am, a, bm, b), DataCell(d))>>,
                                 OneSteps))

\* The programs of the two-warrior scenarios.
DuelPrograms ==
    {Program1(SplZero),
     Program1(Ins(JMP, M_B, DIRECT, 0, DIRECT, 0)),
     Program1(Ins(DAT, M_F, IMMEDIATE, 0, IMMEDIATE, 0)),
     Program1(Ins(MOV, M_I, DIRECT, 0, DIRECT, 1)),
     Program1(Ins(ADD, M_A, DIRECT, 1, DIRECT, 2)),
     Program2(Ins(SPL, M_B, DIRECT, 1, DIRECT, 0), Ins(JMP, M_B, DIRECT, -1, DIRECT, 0)),
     Program2(SplZero, Ins(JMP, M_B, DIRECT, 0, DIRECT, 0)),
     Program2(Ins(DIV, M_BA, IMMEDIATE, 1, IMMEDIATE, 0), Ins(NOP, M_F, DIRECT, 0, DIRECT, 0))}

\* Two warriors in a 3 x 2 and a 2 x 4 core.
InitDuel ==
    \E sw \in {<<6, 3>>, <<8, 2>>}, p \in 0..MaxProcs, s \in 0..1, r \in BOOLEAN,
       w1 \in DuelPrograms, w2 \in DuelPrograms :
        InitScenario(Scenario(sw[1], sw[2], p, s, r, <<w1, w2>>, MaxSteps))

\* A warrior of an instruction at its origin and further cells elsewhere.
ProgramAt(ins, cells) ==
    Warrior(Point2D(0, 0), << [pos |-> Point2D(0, 0), ins |-> ins] >> \o cells)

\* The values of the fields of the data cells in the 3 x 3 core.
PlaneValues == {Point2D(0, 0), Point2D(1, 0), Point2D(0, 1)}

\* A jump or comparison with any modifier and stepping, alone in a 3 x 3
\* core: its A-operand addresses a data cell at (1, 1), its B-operand one
\* at (0, 1); step() is called once.
InitCompare ==
    \E op \in {JMZ, JMN, DJN, SLT, CMP, SEQ, SNE}, md \in AllModifiers,
       st \in AllSteppings,
       xa \in PlaneValues, xb \in PlaneValues, ya \in PlaneValues, yb \in PlaneValues :
        InitScenario(Scenario(9, 3, 2, 0, FALSE,
            <<ProgramAt(Instruction(op, md, st, DIRECT, Point2D(1, 1), DIRECT, Point2D(0, 1)),
                        << [pos |-> Point2D(1, 1),
                            ins |-> Instruction(DAT, M_F, STEP_NORMAL, IMMEDIATE, xa,
                                                IMMEDIATE, xb)],
                           [pos |-> Point2D(0, 1),
                            ins |-> Instruction(DAT, M_F, STEP_NORMAL, IMMEDIATE, ya,
                                                IMMEDIATE, yb)] >>)>>,
            1))

\* A NOP with any stepping, any pair of addressing modes and operand
\* values off the x axis, alone in a 3 x 3 core with data cells at (1, 0)
\* and (1, 1); the cell at (0, 1) is never written.  step() is called once.
InitOperand ==
    \E st \in AllSteppings, am \in AllModes, bm \in AllModes,
       a \in {Point2D(1, 0), Point2D(1, 1)}, b \in {Point2D(0, 1), Point2D(1, 1)},
       fa \in PlaneValues, fb \in PlaneValues :
        InitScenario(Scenario(9, 3, 2, 0, FALSE,
            <<ProgramAt(Instruction(NOP, M_F, st, am, a, bm, b),
                        << [pos |-> Point2D(1, 0),
                            ins |-> Instruction(DAT, M_F, STEP_NORMAL, IMMEDIATE, fa,
                                                IMMEDIATE, fb)],
                           [pos |-> Point2D(1, 1),
                            ins |-> Instruction(DAT, M_F, STEP_NORMAL, IMMEDIATE, fb,
                                                IMMEDIATE, fa)] >>)>>,
            1))

\* Any opcode with any stepping, alone in a 3 x 3 core: both operands
\* address a data cell at (1, 1), the A-operand directly or not at all;
\* step() is called once.
InitStepping ==
    \E op \in AllOpcodes, md \in {M_A, M_B, M_F, M_I}, st \in AllSteppings,
       am \in {IMMEDIATE, DIRECT}, fa \in PlaneValues, fb \in PlaneValues :
        InitScenario(Scenario(9, 3, 2, 0, FALSE,
            <<ProgramAt(Instruction(op, md, st, am, Point2D(1, 1), DIRECT, Point2D(1, 1)),
                        << [pos |-> Point2D(1, 1),
                            ins |-> Instruction(DAT, M_F, STEP_NORMAL, IMMEDIATE, fa,
                                                IMMEDIATE, fb)] >>)>>,
            1))

\* The programs of the loading scenarios: one cell; three cells in a row,
\* entered at the second; three cells in a column.
LoadPrograms ==
    {Program1(Ins(JMP, M_B, DIRECT, 0, DIRECT, 0)),
     Warrior(Point2D(1, 0),
             << [pos |-> Point2D(0, 0), ins |-> DataCell(0)],
                [pos |-> Point2D(1, 0), ins |-> Ins(NOP, M_F, DIRECT, 0, DIRECT, 0)],
                [pos |-> Point2D(2, 0), ins |-> Ins(JMP, M_B, DIRECT, -1, DIRECT, 0)] >>),
     Warrior(Point2D(0, 0),
             << [pos |-> Point2D(0, 0),
                 ins |-> Instruction(NOP, M_F, STEP_VERTICAL, DIRECT, Point2D(0, 0),
                                     DIRECT, Point2D(0, 0))],
                [pos |-> Point2D(0, 1), ins |-> DataCell(1)],
                [pos |-> Point2D(0, 2), ins |-> DataCell(0)] >>)}

\* One to three warriors loaded into cores of four shapes, with and
\* without random offsets; step() is called once.
InitLoad ==
    \E sw \in {<<9, 3>>, <<8, 4>>, <<12, 4>>, <<10, 5>>}, r \in BOOLEAN, n \in 1..3 :
        \E ws \in [1..n -> LoadPrograms] :
            InitScenario(Scenario(sw[1], sw[2], 2, 0, r, ws, 1))

Init ==
    \/ InitSpl \/ InitOne \/ InitDuel \/ InitCompare \/ InitOperand \/ InitStepping
    \/ InitLoad

\* The MARS object the variables hold.
Mars ==
    [core |-> core, warriors |-> warriors, max_processes |-> max_processes,
     minimum_separation |-> minimum_separation, events |-> <<>>, err |-> NoErr]

\* The variables take what step() left: r is [m, regs].
Stepped(r) ==
    /\ core' = r.m.core
    /\ warriors' = r.m.warriors
    /\ err' = r.m.err
    /\ events' = r.m.events
    /\ regs' = r.regs

\* One call of step(); events and err are those of this call.
Step ==
    /\ nsteps < query.steps
    /\ Stepped(step(Mars))
    /\ nsteps' = nsteps + 1
    /\ UNCHANGED <<max_processes, minimum_separation, query>>

Next == Step

Spec == Init /\ [][Next]_vars

(***************************************************************************)
(* Energy-mode: a MARS constructed with total_energy > 0.  The cells       *)
(* carry an energy attribute; Instruction.energy and the methods           *)
(* has_energy, consume_energy and move_energy are not in the sources and   *)
(* follow section 4.4 of the specification, their call sites are those of  *)
(* mars.py.                                                                *)
(***************************************************************************)
\* The instruction with its energy attribute set (instruction_copy.energy
\* = warrior_energy).
WithEnergy(ins, e) ==
    [opcode |-> ins.opcode, modifier |-> ins.modifier, stepping |-> ins.stepping,
     a_mode |-> ins.a_mode, a_number |-> ins.a_number,
     b_mode |-> ins.b_mode, b_number |-> ins.b_number, energy |-> e]

\* An instruction without energy counted as one that has some.
has_energy_of_none(ins) == ins.energy >= 0

\* Instruction.has_energy.
has_energy(ins) == ins.energy > 0

\* No unit is ever there to be taken.
consume_energy_refused(ins) == [ok |-> FALSE, ins |-> ins]

\* Instruction.consume_energy: one unit is taken from the instruction it
\* is called on; returns whether there was one, and the instruction.
consume_energy(ins) ==
    IF ins.energy > 0 THEN [ok |-> TRUE, ins |-> [ins EXCEPT !.energy = @ - 1]]
    ELSE [ok |-> FALSE, ins |-> ins]

\* Instruction.move_energy: target.move_energy(source) equalizes the two;
\* the source gets the lower half, the target the upper half.
move_energy(target, source) ==
    LET total == source.energy + target.energy
    IN  [target |-> [target EXCEPT !.energy = total - (total \div 2)],
         source |-> [source EXCEPT !.energy = total \div 2]]

\* MARS.execute_mov in energy-mode: target_instruction.move_energy(ira)
\* changes the target cell and the copy ira, then the fields are moved.
execute_mov_energy(m, warrior, pc, ir, ira, rpa, wpb) ==
    LET target_point == Point2D(pc.x + wpb.x, pc.y + wpb.y)
        moved == move_energy(get_instruction(m, target_point), ira)
    IN  execute_mov([m EXCEPT !.core.instructions[point_to_index(m.core, target_point)]
                                  = moved.target],
                    warrior, pc, ir, moved.source, rpa, wpb)

\* MARS.execute_instruction in energy-mode.
execute_instruction_energy(m, warrior, pc, ir, ira, irb, rpa, rpb, wpb) ==
    IF ir.opcode = MOV THEN execute_mov_energy(m, warrior, pc, ir, ira, rpa, wpb)
    ELSE execute_instruction(m, warrior, pc, ir, ira, irb, rpa, rpb, wpb)

\* The body of step()'s loop in energy-mode for a warrior whose task queue
\* is not empty.  Returns [m, reg].
StepWarriorEnergy(m, warrior) ==
    LET queue == m.warriors[warrior].task_queue
        pc == Head(queue)
        \* core_event(EXECUTED) and execute_instruction with the
        \* instruction register c.ins, if ir.consume_energy() returned True
        Consumed(mb, c, ira, irb, rpa, rpb, wpb) ==
            IF ~c.ok
            THEN [m |-> mb,
                  reg |-> Registers(warrior, queue, pc, c.ins, ira, irb, rpa, rpb, wpb, FALSE, None)]
            ELSE [m |-> execute_instruction_energy(
                            core_event(mb, warrior, pc, EVENT_EXECUTED),
                            warrior, pc, c.ins, ira, irb, rpa, rpb, wpb),
                  reg |-> Registers(warrior, queue, pc, c.ins, ira, irb, rpa, rpb, wpb, TRUE,
                                    get_instruction(mb, Point2D(pc.x + wpb.x,
                                                                pc.y + wpb.y)))]
        \* ir.consume_energy() is called once the B post-increment has left
        \* the MARS mb without raising
        Execute(mb, ir, ira, irb, rpa, rpb, wpb) ==
            IF mb.err # NoErr
            THEN [m |-> mb,
                  reg |-> Registers(warrior, queue, pc, ir, ira, irb, rpa, rpb, wpb, FALSE, None)]
            ELSE Consumed(mb, consume_energy(ir), ira, irb, rpa, rpb, wpb)
        CaptureB(b, ir, ira, rpa) ==
            IF b.m.err # NoErr
            THEN [m |-> b.m,
                  reg |-> Registers(warrior, queue, pc, ir, ira, None, rpa, None, None, FALSE, None)]
            ELSE Execute(handle_post_increment(b.m, b.pip_point, ir.b_mode,
                                               ir.stepping, warrior),
                         ir, ira,
                         get_instruction(b.m, Point2D(pc.x + b.read_point.x,
                                                      pc.y + b.read_point.y)),
                         rpa, b.read_point, b.write_point)
        OperandB(ma, ir, ira, rpa) ==
            IF ma.err # NoErr
            THEN [m |-> ma,
                  reg |-> Registers(warrior, queue, pc, ir, ira, None, rpa, None, None, FALSE, None)]
            ELSE CaptureB(evaluate_operand(ma, pc, ir.b_number, ir.b_mode,
                                           ir.stepping, warrior),
                          ir, ira, rpa)
        CaptureA(a, ir) ==
            IF a.m.err # NoErr
            THEN [m |-> a.m,
                  reg |-> Registers(warrior, queue, pc, ir, None, None, None, None, None, FALSE, None)]
            ELSE OperandB(handle_post_increment(a.m, a.pip_point, ir.a_mode,
                                                ir.stepping, warrior),
                          ir,
                          get_instruction(a.m, Point2D(pc.x + a.read_point.x,
                                                       pc.y + a.read_point.y)),
                          a.read_point)
        OperandA(m0, ir) ==
            CaptureA(evaluate_operand(m0, pc, ir.a_number, ir.a_mode,
                                      ir.stepping, warrior),
                     ir)
        \* ir = self.get_instruction(pc); without energy the loop continues
        \* with the next warrior, otherwise ir = copy(ir)
        Fetch(m0) ==
            IF ~has_energy(get_instruction(m0, pc))
            THEN [m |-> m0,
                  reg |-> Registers(warrior, queue, pc, get_instruction(m0, pc),
                                    None, None, None, None, None, FALSE, None)]
            ELSE OperandA(m0, get_instruction(m0, pc))
    IN  Fetch([m EXCEPT !.warriors[warrior].task_queue = Tail(@)])

\* step()'s loop in energy-mode from warrior n on.
RECURSIVE StepFromEnergy(_, _, _)
RECURSIVE StepOnEnergy(_, _, _)
StepOnEnergy(r, rs, n) ==
    IF r.m.err # NoErr THEN [m |-> r.m, regs |-> Append(rs, r.reg)]
    ELSE StepFromEnergy(r.m, Append(rs, r.reg), n + 1)

StepFromEnergy(m, rs, n) ==
    IF n > Len(m.warriors) THEN [m |-> m, regs |-> rs]
    ELSE IF Len(m.warriors[n].task_queue) = 0 THEN StepFromEnergy(m, rs, n + 1)
    ELSE StepOnEnergy(StepWarriorEnergy(m, n), rs, n)

\* MARS.step in energy-mode.
step_energy(m) == StepFromEnergy(m, <<>>, 1)

\* load_warriors in energy-mode: the copy of the instructions k.. of warrior
\* n to the core; each copy is given warrior_energy before it is written.
RECURSIVE CopyInstructionsEnergy(_, _, _, _, _)
CopyInstructionsEnergy(m, n, position, k, warrior_energy) ==
    IF k > Len(m.warriors[n].instructions) \/ m.err # NoErr THEN m
    ELSE LET e == m.warriors[n].instructions[k]
             abs_pos == Point2D((position.x + e.pos.x) % m.core.width,
                                (position.y + e.pos.y) % m.core.height)
             m1 == set_instruction(m, abs_pos, WithEnergy(e.ins, warrior_energy))
         IN  CopyInstructionsEnergy(IF m1.err # NoErr THEN m1
                                    ELSE core_event(m1, n, abs_pos, EVENT_I_WRITE),
                                    n, position, k + 1, warrior_energy)

\* load_warriors in energy-mode: the loop body for warriors n.. ; the task
\* queue of a warrior is set before warrior_energy = total_energy //
\* len(warrior.instructions) is computed, which raises for a warrior
\* without instructions.
RECURSIVE LoadFromEnergy(_, _, _, _, _)
LoadFromEnergy(m, n, randomize, offsets, total_energy) ==
    IF n > Len(m.warriors) \/ m.err # NoErr THEN m
    ELSE LET position == warrior_position(m, n, randomize, offsets[n])
             start_pos == Point2D(position.x + m.warriors[n].start.x,
                                  position.y + m.warriors[n].start.y)
             m1 == [m EXCEPT !.warriors[n].task_queue = <<start_pos>>]
         IN  IF Len(m.warriors[n].instructions) = 0
             THEN Raise(m1, "ZeroDivisionError")
             ELSE LoadFromEnergy(
                      CopyInstructionsEnergy(m1, n, position, 1,
                          total_energy \div Len(m.warriors[n].instructions)),
                      n + 1, randomize, offsets, total_energy)

\* MARS.load_warriors in energy-mode: the cells written carry
\* warrior_energy, the warriors keep their own instructions.
load_warriors_energy(m, randomize, offsets, total_energy) ==
    IF Len(m.warriors) = 0 THEN Raise(m, "ZeroDivisionError")
    ELSE LoadFromEnergy(m, 1, randomize, offsets, total_energy)

\* The energy of an instruction that no load has given one: the
\* specification's 0, or the default of 1000 that the tests speak of.
UnloadedEnergies == {0, 1000}

\* MARS.__init__ with total_energy > 0 on a new Core(size, width) whose
\* cells carry the energy `unloaded`; max_processes 0 stands for None.
\* The warriors are loaded if there are any.
MARSInitEnergy(size, width, ws, min_separation, randomize, max_procs, offsets, total_energy, unloaded) ==
    LET m == [core |-> Clear(CoreInit(DEFAULT_INITIAL_INSTRUCTION, size, width, 0, 0).core,
                             WithEnergy(DEFAULT_INITIAL_INSTRUCTION, unloaded)),
              warriors |-> ws,
              max_processes |-> IF max_procs # 0 THEN max_procs ELSE size,
              minimum_separation |-> min_separation,
              events |-> <<>>, err |-> NoErr]
    IN  IF Len(ws) > 0 THEN load_warriors_energy(m, randomize, offsets, total_energy)
        ELSE m

\* MARS(warriors=ws) with every default: a new Core() of 8000 cells in
\* rows of 100, minimum_separation 100, randomize, no limit of processes
\* other than the size of the core, total_energy 100000.
MARSDefault(ws, offsets, unloaded) ==
    MARSInitEnergy(8000, 100, ws, 100, TRUE, 0, offsets, 100000, unloaded)

\* MARS.reset: the core is cleared and load_warriors() is called with its
\* defaults, randomize = True and total_energy = 0, in the mode the MARS
\* was constructed in.
reset(m, energy_mode, clear_instruction, offsets) ==
    IF energy_mode
    THEN load_warriors_energy([m EXCEPT !.core = Clear(@, clear_instruction)],
                              TRUE, offsets, 0)
    ELSE load_warriors([m EXCEPT !.core = Clear(@, clear_instruction)], TRUE, offsets)

\* The variables hold the MARS m constructed with randomize and
\* total_energy.
ConstructedEnergy(m, randomize, steps, total_energy) ==
    /\ core = m.core
    /\ warriors = m.warriors
    /\ max_processes = m.max_processes
    /\ minimum_separation = m.minimum_separation
    /\ err = m.err
    /\ events = m.events
    /\ nsteps = 0
    /\ regs = NoRegs
    /\ query = [op |-> "MARS", randomize |-> randomize, steps |-> steps,
                total_energy |-> total_energy]

MaxEnergy == 10       \* the largest total_energy of the one-instruction warriors
EnergySteps == 3      \* step() calls made on the moving warriors

\* JMP $0, $0 alone with total_energy 1..MaxEnergy; step() is called
\* total_energy + 1 times.
InitEnergyJmp ==
    \E e \in 1..MaxEnergy, sw \in {<<1, 1>>, <<4, 2>>}, u \in UnloadedEnergies :
        ConstructedEnergy(
            MARSInitEnergy(sw[1], sw[2], <<Program1(Ins(JMP, M_B, DIRECT, 0, DIRECT, 0))>>,
                           0, FALSE, 2, <<0>>, e, u),
            FALSE, e + 1, e)

\* The programs of the moving warriors: a MOV with any modifier whose
\* source and target are the cells around it, followed by a jump back.
EnergyPrograms ==
    {Program2(Ins(MOV, md, DIRECT, a, DIRECT, b), Ins(JMP, M_B, DIRECT, -1, DIRECT, 0)) :
        md \in AllModifiers, a \in 0..1, b \in (-1)..2}
    \cup {Program1(Ins(NOP, M_F, DIRECT, 0, DIRECT, 0))}

\* One or two warriors in a 4 x 2 core, with total_energy from 1 (no
\* energy in the cells of a warrior of two instructions) to 7; a second
\* warrior moves itself to the cell before it or part of itself to the
\* second cell of the first warrior.
InitEnergyMov ==
    \E w1 \in EnergyPrograms, e \in {1, 2, 5, 7}, u \in UnloadedEnergies :
        \/ ConstructedEnergy(MARSInitEnergy(8, 4, <<w1>>, 0, FALSE, 2, <<0>>, e, u),
                                FALSE, EnergySteps, e)
        \/ \E w2 \in {Program1(Ins(MOV, M_I, DIRECT, 0, DIRECT, -1)),
                       Program1(Ins(MOV, M_A, DIRECT, 0, DIRECT, -3))} :
               ConstructedEnergy(MARSInitEnergy(8, 4, <<w1, w2>>, 0, FALSE, 2, <<0, 0>>, e, u),
                                 FALSE, EnergySteps, e)

InitEnergy == InitEnergyJmp \/ InitEnergyMov

\* One call of step() in energy-mode.
StepEnergy ==
    /\ nsteps < query.steps
    /\ Stepped(step_energy(Mars))
    /\ nsteps' = nsteps + 1
    /\ UNCHANGED <<max_processes, minimum_separation, query>>

NextEnergy == StepEnergy

SpecEnergy == InitEnergy /\ [][NextEnergy]_vars

\* Dwarf and Sitting Duck as redcode.parse returns them.
Dwarf ==
    Warrior(Point2D(1, 0),
            << [pos |-> Point2D(0, 0), ins |-> Ins(ADD, M_AB, IMMEDIATE, 2004, DIRECT, 1)],
               [pos |-> Point2D(1, 0), ins |-> Ins(MOV, M_I, DIRECT, 2, DIRECT, 2)],
               [pos |-> Point2D(2, 0), ins |-> Ins(JMP, M_B, DIRECT, -2, DIRECT, 0)] >>)

SittingDuck ==
    Warrior(Point2D(0, 0),
            [j \in 1..5 |-> [pos |-> Point2D(j - 1, 0),
                             ins |-> Ins(NOP, M_F, DIRECT, 0, DIRECT, 0)]])

MaxCycles == 8000     \* step() calls the match makes at most

\* Some of the offsets randint(0, max_offset) can return for the two
\* warriors: max_offset is 3797 for Dwarf and 3795 for Sitting Duck.
DwarfOffsets == {0, 1, 98, 99, 100, 3795}

\* Dwarf against Sitting Duck in MARS(warriors=[dwarf, sitting_duck]).
InitDwarf ==
    \E o \in [1..2 -> DwarfOffsets], u \in UnloadedEnergies :
        /\ \A n \in 1..2 :
               o[n] <= max_offset([core |-> [size |-> 8000, width |-> 100],
                                   warriors |-> <<Dwarf, SittingDuck>>,
                                   minimum_separation |-> 100], n)
        /\ ConstructedEnergy(MARSDefault(<<Dwarf, SittingDuck>>, o, u),
                             TRUE, MaxCycles, 100000)

\* One round of the match: step() is called until it raises or one of the
\* two task queues is empty.
StepDwarf ==
    /\ err = NoErr
    /\ \A n \in 1..Len(warriors) : warriors[n].task_queue # <<>>
    /\ StepEnergy

NextDwarf == StepDwarf

SpecDwarf == InitDwarf /\ [][NextDwarf]_vars

(***************************************************************************)
(* ADD.AB #7, #0 followed by JMP.A $-1, $-1 in a 10 x 10 core              *)
(* (tests/test_position_calculation.py), with MARS's default total_energy *)
(* and with energy-mode off.                                               *)
(***************************************************************************)
PositionIterations == 20   \* ADD/JMP iterations: step() is called twice in each

InitPosition ==
    \/ \E u \in UnloadedEnergies :
           ConstructedEnergy(
               MARSInitEnergy(100, 10,
                              <<Program2(Ins(ADD, M_AB, IMMEDIATE, 7, IMMEDIATE, 0),
                                         Ins(JMP, M_A, DIRECT, -1, DIRECT, -1))>>,
                              100, TRUE, 0, <<0>>, 100000, u),
               TRUE, 2 * PositionIterations, 100000)
    \/ ConstructedEnergy(
           MARSInit(CoreInit(DEFAULT_INITIAL_INSTRUCTION, 100, 10, 0, 0).core,
                    <<Program2(Ins(ADD, M_AB, IMMEDIATE, 7, IMMEDIATE, 0),
                               Ins(JMP, M_A, DIRECT, -1, DIRECT, -1))>>,
                    100, TRUE, 0, <<0>>),
           TRUE, 2 * PositionIterations, 0)

\* step() of a MARS in either mode: energy_mode is total_energy > 0.
StepMode ==
    \/ query.total_energy > 0 /\ StepEnergy
    \/ query.total_energy = 0 /\ Step

NextPosition == StepMode

SpecPosition == InitPosition /\ [][NextPosition]_vars

(***************************************************************************)
(* reset() between the steps of a simulation.                              *)
(***************************************************************************)
\* The instructions reset() is called with.
ClearInstructions ==
    {DEFAULT_INITIAL_INSTRUCTION,
     Ins(DAT, M_F, IMMEDIATE, 0, IMMEDIATE, 0),
     Ins(NOP, M_B, DIRECT, 1, DIRECT, 0)}

\* The variables take what reset(ins) left in the MARS m; the driver goes
\* on with its step() calls from the start and keeps, as `constructed`,
\* the randomize argument the MARS was constructed with.
Reloaded(m, ins) ==
    /\ core' = m.core
    /\ warriors' = m.warriors
    /\ err' = m.err
    /\ events' = m.events
    /\ regs' = NoRegs
    /\ nsteps' = 0
    /\ query' = [op |-> "reset", ins |-> ins, randomize |-> TRUE,
                 constructed |-> query.randomize, steps |-> query.steps,
                 total_energy |-> query.total_energy]

\* One call of reset(ins), made once in a run, after any number of steps,
\* on a MARS of either mode; in energy-mode the instruction passed
\* carries the energy of an instruction that no load has given one.
Reset ==
    /\ query.op = "MARS"
    /\ \E ins \in ClearInstructions, o \in Offsets(Mars, TRUE) :
           IF query.total_energy > 0
           THEN \E u \in UnloadedEnergies :
                    Reloaded(reset(Mars, TRUE, WithEnergy(ins, u), o), WithEnergy(ins, u))
           ELSE Reloaded(reset(Mars, FALSE, ins, o), ins)
    /\ UNCHANGED <<max_processes, minimum_separation>>

\* A MARS of either mode: the scenarios of the steps without energy, and
\* the warriors constructed with a total_energy.
InitReset == InitSpl \/ InitLoad \/ InitEnergy

NextReset == StepMode \/ Reset

SpecReset == InitReset /\ [][NextReset]_vars

(***************************************************************************)
(* Instruction.normalize called by a driver on the cells of a running      *)
(* MARS before every step(), as tests/mars_test.py does.  The test         *)
(* constructs the MARS without a total_energy, so it runs in energy-mode   *)
(* with the default of 100000; a driver that passes total_energy = 0 runs  *)
(* it without.  normalize changes the Point2D objects of the cell in       *)
(* place, so every cell and every instruction of a warrior that holds one  *)
(* of these objects changes with it.  query.held names the Point2D object  *)
(* behind each number: held.cells[k] for the cell of index k,              *)
(* held.warriors[w][j] for the j-th instruction of warrior w.              *)
(***************************************************************************)
\* A number kept as an int or a str (the initial instruction's): the
\* property makes a new Point2D at each read, no object is held.
NoObject == [step |-> -1, warrior |-> 0, at |-> 0, field |-> ""]

\* The instruction whose copy the load left in the cell of index k: the
\* warrior and the place in its instructions of the last I_WRITE event
\* of the load at that cell, None for a cell the load did not write.
LoadedFrom(k) ==
    LET es == {e \in 1..Len(events) :
                  /\ events[e].event_type = EVENT_I_WRITE
                  /\ point_to_index(core, events[e].address) = k}
        Place(e) == Cardinality({d \in 1..e : events[d].warrior = events[e].warrior})
    IN  IF es = {} THEN None
        ELSE [warrior |-> events[SetMax(es)].warrior, j |-> Place(SetMax(es))]

\* The objects held after the load: load_warriors stores copy(instruction),
\* which shares the Point2D objects of its numbers with the warrior's
\* instruction; a cell the load did not write holds no object.
LoadedHeld ==
    LET Of(w, j) ==
            [a_number |-> [step |-> 0, warrior |-> w, at |-> j, field |-> "a_number"],
             b_number |-> [step |-> 0, warrior |-> w, at |-> j, field |-> "b_number"]]
    IN  [cells |-> [k \in 0..(core.size - 1) |->
                       IF LoadedFrom(k) = None
                       THEN [a_number |-> NoObject, b_number |-> NoObject]
                       ELSE Of(LoadedFrom(k).warrior, LoadedFrom(k).j)],
         warriors |-> [w \in 1..Len(warriors) |->
                          [j \in 1..Len(warriors[w].instructions) |-> Of(w, j)]]]

\* The objects the cells hold after the body of step()'s loop has run for
\* one warrior with the locals r, in the n-th step() call.  An assignment
\* of a computed value (pre-decrement, post-increment, arithmetic, DJN)
\* stores a new Point2D; MOV stores the object ira holds, ira being a
\* copy() that shares the objects of the cell it was copied from; MOV.I
\* stores ira itself.
VisitHeld(cells, r, n) ==
    LET ir == r.ir
        At(number) ==
            point_to_index(core, Point2D(r.pc.x + number.x, r.pc.y + number.y))
        Made(i, field) == [step |-> n, warrior |-> r.warrior, at |-> i, field |-> field]
        Assigned(cs, done, k, field, object) ==
            IF done THEN [cs EXCEPT ![k][field] = object] ELSE cs
        \* evaluate_operand's pre-decrement, handle_post_increment
        Bumped(cs, done, number, mode, i) ==
            IF done
            THEN Assigned(cs, TRUE, At(number),
                          IF mode \in {PREDEC_A, POSTINC_A} THEN "a_number" ELSE "b_number",
                          Made(i, IF mode \in {PREDEC_A, POSTINC_A}
                                  THEN "a_number" ELSE "b_number"))
            ELSE cs
        \* what ira.<field> returns: the object held, or a new Point2D
        Read(held, field, i) ==
            IF held[field] = NoObject THEN Made(i, field) ELSE held[field]
        Mov(cs, held, plan) ==
            IF ir.modifier = M_I
            THEN IF IsPoint(r.ira.a_number) /\ IsPoint(r.ira.b_number)
                 THEN [cs EXCEPT ![At(r.wpb)] = held] ELSE cs
            ELSE Assigned(Assigned(cs, IsPoint(r.ira[plan[1][2]]),
                                   At(r.wpb), plan[1][1], Read(held, plan[1][2], 5)),
                          /\ Len(plan) = 2
                          /\ IsPoint(r.ira[plan[1][2]])
                          /\ IsPoint(r.ira[plan[2][2]]),
                          At(r.wpb), plan[2][1], Read(held, plan[2][2], 6))
        Computed(plan, i) ==
            LET v == ArithOp(ir.opcode, r.irb[plan[i][2]], r.ira[plan[i][3]])
            IN  v.err = NoErr /\ IsPoint(v.val)
        Arith(cs, plan) ==
            Assigned(Assigned(cs, Computed(plan, 1),
                              At(r.wpb), plan[1][1], Made(5, plan[1][1])),
                     Len(plan) = 2 /\ Computed(plan, 1) /\ Computed(plan, 2),
                     At(r.wpb), plan[2][1], Made(6, plan[2][1]))
        Djn(cs, first) ==
            IF ir.stepping \notin AllSteppings THEN cs
            ELSE Assigned(Assigned(cs, IsPoint(r.target[first]),
                                   At(r.wpb), first, Made(5, first)),
                          /\ ir.modifier \in {M_F, M_X, M_I}
                          /\ IsPoint(r.target[first])
                          /\ IsPoint(r.irb[first])
                          /\ IsPoint(r.target.b_number),
                          At(r.wpb), "b_number", Made(6, "b_number"))
        Executed(cs, held) ==
            IF ~r.executed THEN cs
            ELSE IF ir.opcode = MOV THEN Mov(cs, held, MovPlan(ir.modifier))
            ELSE IF ir.opcode \in {ADD, SUB, MUL, DIV, MOD}
            THEN Arith(cs, ArithPlan(ir.modifier))
            ELSE IF ir.opcode = DJN
            THEN Djn(cs, IF ir.modifier \in {M_B, M_AB} THEN "b_number" ELSE "a_number")
            ELSE cs
        \* the B-operand, ira holding the objects `held`
        OperandB(cs, held) ==
            Executed(Bumped(Bumped(cs, ir.b_mode \in {PREDEC_A, PREDEC_B} /\ r.irb # None,
                                   ir.b_number, ir.b_mode, 3),
                            ir.b_mode \in {POSTINC_A, POSTINC_B} /\ r.executed,
                            ir.b_number, ir.b_mode, 4),
                     held)
        \* ira = copy(...) and the A post-increment, after the A
        \* pre-decrement has left cs
        CaptureA(cs) ==
            IF r.ira = None THEN cs
            ELSE OperandB(Bumped(cs, /\ ir.a_mode \in {POSTINC_A, POSTINC_B}
                                     /\ ir.stepping \in AllSteppings,
                                 ir.a_number, ir.a_mode, 2),
                          cs[At(r.rpa)])
    IN  CaptureA(Bumped(cells, ir.a_mode \in {PREDEC_A, PREDEC_B} /\ r.ira # None,
                        ir.a_number, ir.a_mode, 1))

\* The objects the cells hold after step()'s loop has run for the
\* warriors of the locals rs.
RECURSIVE StepHeld(_, _, _)
StepHeld(cells, rs, n) ==
    IF rs = <<>> THEN cells
    ELSE StepHeld(VisitHeld(cells, Head(rs), n), Tail(rs), n)

\* One call of step(), in the mode the MARS was constructed in, with the
\* objects the cells hold afterwards.
StepLoaded ==
    /\ nsteps < query.steps
    /\ Stepped(IF query.total_energy > 0 THEN step_energy(Mars) ELSE step(Mars))
    /\ nsteps' = nsteps + 1
    /\ query' = [query EXCEPT !.held.cells = StepHeld(@, regs', nsteps')]
    /\ UNCHANGED <<max_processes, minimum_separation>>

\* core[p].normalize(len(core)) between two step() calls: the numbers of
\* the cell are folded in place, in every cell and every instruction of
\* a warrior that holds the same Point2D object.
NormalizeLoaded ==
    /\ query.op = "MARS" /\ err = NoErr
    /\ \E k \in 0..(core.size - 1) :
          LET mine == {query.held.cells[k].a_number,
                       query.held.cells[k].b_number} \ {NoObject}
              Normalized(ins, held) ==
                  [ins EXCEPT
                      !.a_number = IF held.a_number \in mine
                                   THEN NormalizedNumber(@, core.size) ELSE @,
                      !.b_number = IF held.b_number \in mine
                                   THEN NormalizedNumber(@, core.size) ELSE @]
          IN  /\ core' = [core EXCEPT !.instructions =
                             [j \in DOMAIN @ |-> Normalized(@[j], query.held.cells[j])]]
              /\ warriors' =
                     [w \in 1..Len(warriors) |->
                         [warriors[w] EXCEPT !.instructions =
                             [j \in 1..Len(@) |->
                                 [@[j] EXCEPT !.ins =
                                     Normalized(@, query.held.warriors[w][j])]]]]
    /\ UNCHANGED <<max_processes, minimum_separation, err, events, nsteps, regs, query>>

\* The state after Core(size, width) and MARS(core, warriors, ...,
\* total_energy) of a scenario, with the objects its load has left; in
\* energy-mode the cells of the new core carry the energy `unloaded`.
InitScenarioHeld(sc, total_energy, unloaded) ==
    LET Held(m) ==
            /\ core = m.core
            /\ warriors = m.warriors
            /\ max_processes = m.max_processes
            /\ minimum_separation = m.minimum_separation
            /\ err = m.err
            /\ events = m.events
            /\ nsteps = 0
            /\ regs = NoRegs
            /\ query = [op |-> "MARS", randomize |-> sc.randomize, steps |-> sc.steps,
                        total_energy |-> total_energy, held |-> LoadedHeld]
    IN  \E o \in Offsets(Unloaded(sc), sc.randomize) :
            Held(IF total_energy > 0
                 THEN MARSInitEnergy(sc.size, sc.width, sc.ws, sc.min_separation,
                                     sc.randomize, sc.max_procs, o, total_energy, unloaded)
                 ELSE MARSInit(CoreInit(DEFAULT_INITIAL_INSTRUCTION,
                                        sc.size, sc.width, 0, 0).core,
                               sc.ws, sc.min_separation, sc.randomize, sc.max_procs, o))

\* Programs that write to the core or jump out of it: MOV.I of the next
\* cell over the one after it; JMP to the cell before; an instruction
\* that writes through its operands, followed by a MOV.I of it and a cell
\* of numbers outside the core.
WritingPrograms ==
    {Program2(Ins(MOV, M_I, DIRECT, 1, DIRECT, 2), Ins(DAT, M_F, DIRECT, -1, DIRECT, -1)),
     Program1(Ins(JMP, M_B, DIRECT, -1, DIRECT, 0))}
    \cup {Warrior(Point2D(0, 0),
                  << [pos |-> Point2D(0, 0), ins |-> Ins(op, md, am, 1, bm, 2)],
                     [pos |-> Point2D(1, 0),
                      ins |-> Ins(MOV, M_I, DIRECT, -1, DIRECT, 1)],
                     [pos |-> Point2D(2, 0),
                      ins |-> Ins(DAT, M_F, DIRECT, -2, DIRECT, -1)] >>) :
             op \in {MOV, ADD, DIV, DJN}, md \in AllModifiers,
             am \in AllModes, bm \in AllModes}

\* The loading scenarios with two step() calls; a writing program alone
\* in an 8 x 4 core, or two of the short ones, with three.  eu is the
\* total_energy of the MARS and the energy of the cells of its new core:
\* the default of 100000 that the test leaves in place, with either
\* energy of an unloaded instruction, or 0 passed to leave energy-mode.
InitNormalize ==
    \E eu \in {<<100000, u>> : u \in UnloadedEnergies} \cup {<<0, 0>>} :
        \/ \E sw \in {<<9, 3>>, <<8, 4>>, <<12, 4>>, <<10, 5>>}, r \in BOOLEAN, n \in 1..3 :
              \E ws \in [1..n -> LoadPrograms] :
                  InitScenarioHeld(Scenario(sw[1], sw[2], 2, 0, r, ws, 2), eu[1], eu[2])
        \/ \E p \in WritingPrograms :
              InitScenarioHeld(Scenario(8, 4, 2, 0, FALSE, <<p>>, 3), eu[1], eu[2])
        \/ \E ws \in [1..2 -> {p \in WritingPrograms : Len(p.instructions) < 3}] :
              InitScenarioHeld(Scenario(8, 4, 2, 0, FALSE, ws, 3), eu[1], eu[2])

NextNormalize == NormalizeLoaded \/ StepLoaded

SpecNormalize == InitNormalize /\ [][NextNormalize]_vars


(***************************************************************************)
(* The rounds of a match (the script at the end of mars.py).              *)
(* query holds the script's arguments and locals: cycles, rounds, the      *)
(* round being played, wins/ties/losses of every warrior, and `at`: in    *)
(* the cycle loop ("cycle"), after the last round ("done"), or left by an *)
(* exception ("raised").                                                   *)
(***************************************************************************)
MaxMatchCycles == 2   \* --cycles is 0..MaxMatchCycles
MaxRounds == 2        \* --rounds is 1..MaxRounds
MaxMatchOffset == 1   \* randint returns 0..MaxMatchOffset

\* The warriors of the matches: jmp 0; dat #0, #0; nop followed by
\* dat #0, #0; mov 1, 2.
MatchPrograms ==
    {Program1(Ins(JMP, M_B, DIRECT, 0, DIRECT, 0)),
     Program1(Ins(DAT, M_F, IMMEDIATE, 0, IMMEDIATE, 0)),
     Program2(Ins(NOP, M_F, DIRECT, 0, DIRECT, 0), Ins(DAT, M_F, IMMEDIATE, 0, IMMEDIATE, 0)),
     Program1(Ins(MOV, M_I, DIRECT, 1, DIRECT, 2))}

\* Some of the offsets randint can return for the warriors ws loaded with
\* minimum_separation d into a new Core().
MatchOffsets(ws, d) ==
    {o \in [1..Len(ws) -> 0..MaxMatchOffset] :
        \A n \in 1..Len(ws) :
            LET mo == max_offset([core |-> [size |-> 8000, width |-> 100],
                                  warriors |-> ws, minimum_separation |-> d], n)
            IN  IF mo > 0 THEN o[n] <= mo ELSE o[n] = 0}

\* The script up to the first round's simulation = MARS(warriors=warriors,
\* minimum_separation=d, max_processes=8000, total_energy=0); nobody has
\* won, tied or lost.  --distance d is 3898, where a warrior of one
\* instruction gets an offset, or 4000, where two warriors get none.
InitMatch ==
    \E n \in 1..2, cycles \in 0..MaxMatchCycles, rounds \in 1..MaxRounds,
       d \in {3898, 4000} :
        \E ws \in [1..n -> MatchPrograms] :
            \E o \in MatchOffsets(ws, d) :
                LET Started(m) ==
                        /\ core = m.core
                        /\ warriors = m.warriors
                        /\ max_processes = m.max_processes
                        /\ minimum_separation = m.minimum_separation
                        /\ err = m.err
                        /\ events = m.events
                IN  /\ Started(MARSInit(
                           CoreInit(DEFAULT_INITIAL_INSTRUCTION, 8000, 100, 0, 0).core,
                           ws, d, TRUE, 8000, o))
                    /\ nsteps = 0
                    /\ regs = NoRegs
                    /\ query = [op |-> "match", cycles |-> cycles, rounds |-> rounds,
                                round |-> 1, at |-> "cycle",
                                score |-> [k \in 1..n |->
                                              [wins |-> 0, ties |-> 0, losses |-> 0]]]

\* The number of warriors of ws with a task.
Alive(ws) == Cardinality({n \in 1..Len(ws) : ws[n].task_queue # <<>>})

\* wins/ties/losses after a round that ends with the warriors ws; what
\* is "wins" or "ties", the outcome of a warrior with a task.
Scored(score, ws, what) ==
    [n \in 1..Len(ws) |->
        IF ws[n].task_queue # <<>> THEN [score[n] EXCEPT ![what] = @ + 1]
        ELSE [score[n] EXCEPT !.losses = @ + 1]]

\* The script after a round that left the MARS m, the locals rg of its
\* last step() and k steps made: the next round's MARS on a new Core(),
\* or the results.
RoundOver(q, m, rg, k) ==
    IF q.round = q.rounds
    THEN /\ query' = [q EXCEPT !.at = "done"]
         /\ core' = m.core
         /\ warriors' = m.warriors
         /\ err' = m.err
         /\ events' = m.events
         /\ regs' = rg
         /\ nsteps' = k
         /\ UNCHANGED <<max_processes, minimum_separation>>
    ELSE \E o \in MatchOffsets(m.warriors, m.minimum_separation) :
             LET Started(m2) ==
                     /\ core' = m2.core
                     /\ warriors' = m2.warriors
                     /\ max_processes' = m2.max_processes
                     /\ minimum_separation' = m2.minimum_separation
                     /\ err' = m2.err
                     /\ events' = m2.events
             IN  /\ Started(MARSInit(
                        CoreInit(DEFAULT_INITIAL_INSTRUCTION, 8000, 100, 0, 0).core,
                        m.warriors, m.minimum_separation, TRUE, 8000, o))
                 /\ nsteps' = 0
                 /\ regs' = NoRegs
                 /\ query' = [q EXCEPT !.round = @ + 1]

\* One pass of `for c in range(args.cycles)`: r is what step() left.
Cycled(r) ==
    IF r.m.err # NoErr
    THEN /\ Stepped(r)
         /\ nsteps' = nsteps + 1
         /\ query' = [query EXCEPT !.at = "raised"]
         /\ UNCHANGED <<max_processes, minimum_separation>>
    ELSE IF Alive(r.m.warriors) <= (IF Len(warriors) >= 2 THEN 1 ELSE 0)
    THEN RoundOver([query EXCEPT !.score = Scored(@, r.m.warriors, "wins")],
                   r.m, r.regs, nsteps + 1)
    ELSE /\ Stepped(r)
         /\ nsteps' = nsteps + 1
         /\ UNCHANGED <<max_processes, minimum_separation, query>>

MatchCycle ==
    /\ query.at = "cycle"
    /\ nsteps < query.cycles
    /\ Cycled(step(Mars))

\* The else of the cycle loop: the round ran until max cycles.
MatchTie ==
    /\ query.at = "cycle"
    /\ nsteps = query.cycles
    /\ RoundOver([query EXCEPT !.score = Scored(@, warriors, "ties")],
                 [Mars EXCEPT !.events = events], regs, nsteps)

NextMatch == MatchCycle \/ MatchTie

SpecMatch == InitMatch /\ [][NextMatch]_vars

(***************************************************************************)
(* Properties of the simulator.                                            *)
(***************************************************************************)
\* The visits of the last step(): indices into regs.
Visits == 1..Len(regs)

\* The task queue of the warrior of visit i as the visit left it (no later
\* visit of the same step() touches it).
QueueAfter(i) == warriors[regs[i].warrior].task_queue

\* The normal successor and, for SPL and the jumps, the target of visit i,
\* as enqueue stores them.
Successor(i) ==
    trim(core, increment_by_stepping(regs[i].pc, 1, regs[i].ir.stepping).val)
Target(i) ==
    trim(core, Point2D(regs[i].pc.x + regs[i].rpa.x, regs[i].pc.y + regs[i].rpa.y))

Min2(a, b) == IF a <= b THEN a ELSE b

\* C1: after the load and after every step(), each warrior's task queue
\* holds at most max_processes tasks.
QueueWithinMaxProcesses ==
    \A n \in 1..Len(warriors) : Len(warriors[n].task_queue) <= max_processes

\* C1: a warrior's queue has been filled up to max_processes by a split.
QueueFilledBySplit ==
    \E i \in Visits :
        /\ regs[i].executed /\ regs[i].ir.opcode = SPL
        /\ max_processes >= 3
        /\ Len(QueueAfter(i)) = max_processes

\* C2: one step() visits, in list order, exactly the warriors whose queue
\* is not empty; each of them loses the front of its queue and executes one
\* instruction (one EXECUTED event at that address); the others execute
\* nothing and keep an empty queue.
RoundRobinOneInstructionEach ==
    [][LET alive == {n \in 1..Len(warriors) : Len(warriors[n].task_queue) > 0}
       IN  /\ Len(regs') = Cardinality(alive)
           /\ \A i \in 1..Len(regs') :
                 /\ regs'[i].warrior \in alive
                 /\ regs'[i].queue_before = warriors[regs'[i].warrior].task_queue
                 /\ regs'[i].pc = Head(warriors[regs'[i].warrior].task_queue)
                 /\ regs'[i].executed
                 /\ \A j \in 1..Len(regs') : i < j => regs'[i].warrior < regs'[j].warrior
           /\ \A n \in 1..Len(warriors) :
                 Cardinality({e \in 1..Len(events') :
                                 /\ events'[e].warrior = n
                                 /\ events'[e].event_type = EVENT_EXECUTED})
                    = IF n \in alive THEN 1 ELSE 0
           /\ \A n \in 1..Len(warriors) :
                 n \notin alive => warriors'[n].task_queue = <<>>
      ]_vars

\* C3: a visit whose instruction register holds a DAT, with any modifier
\* and operands, enqueues nothing: the warrior's queue is what it was
\* without its front, and empty if that was its only task.
DatKillsTask ==
    \A i \in Visits :
        regs[i].ir.opcode = DAT =>
            /\ QueueAfter(i) = Tail(regs[i].queue_before)
            /\ Len(regs[i].queue_before) = 1 => QueueAfter(i) = <<>>

\* C3: a one-task warrior has executed a DAT with a non-immediate operand
\* and is dead.
OneTaskWarriorDiedOnDat ==
    \E i \in Visits :
        /\ regs[i].executed /\ regs[i].ir.opcode = DAT
        /\ regs[i].ir.modifier # M_F /\ regs[i].ir.a_mode # IMMEDIATE
        /\ Len(regs[i].queue_before) = 1
        /\ QueueAfter(i) = <<>>

\* The MARS holds one warrior, which consists of the instruction SPL $0, $0.
SplZeroAlone ==
    /\ Len(warriors) = 1
    /\ warriors[1].instructions = <<[pos |-> Point2D(0, 0), ins |-> SplZero]>>

\* C4 as stated: the queue of the SPL $0, $0 warrior has
\* min(1 + k, max_processes) tasks after k steps.
SplQueueGrowsToCap ==
    SplZeroAlone =>
        Len(warriors[1].task_queue) = Min2(1 + nsteps, max_processes)

\* C4 as amended: min(1 + k, max_processes) in a core of one cell; in a
\* larger core the successor is an empty DAT cell, so the length is 2 after
\* an odd and 1 after an even number of steps when max_processes >= 2, and
\* with max_processes = 1 it is 1 after the first step and 0 afterwards.
SplQueueLength ==
    SplZeroAlone =>
        Len(warriors[1].task_queue) =
            IF core.size = 1 THEN Min2(1 + nsteps, max_processes)
            ELSE IF max_processes = 1 THEN (IF nsteps <= 1 THEN 1 ELSE 0)
            ELSE IF nsteps % 2 = 1 THEN 2 ELSE 1

\* C4: the SPL $0, $0 warrior in a core of several cells after its third
\* step, with two tasks although max_processes allows more.
SplQueueBackAtTwo ==
    /\ SplZeroAlone
    /\ core.size > 1 /\ max_processes >= 3
    /\ nsteps = 3
    /\ Len(warriors[1].task_queue) = 2

\* C5: an executed SPL appends the normal successor and then the split
\* target behind the tasks that were waiting; if only one of the two fits,
\* the successor is appended and the target dropped, without an error.
SplSuccessorBeforeTarget ==
    \A i \in Visits :
        (regs[i].executed /\ regs[i].ir.opcode = SPL) =>
            LET rest == Tail(regs[i].queue_before)
            IN  /\ i = Len(regs) => err = NoErr
                /\ QueueAfter(i) =
                      IF Len(rest) + 2 <= max_processes
                      THEN rest \o <<Successor(i), Target(i)>>
                      ELSE rest \o <<Successor(i)>>

\* C5: an SPL has executed with tasks waiting and room for one more only;
\* successor and target differ.
SplDroppedTarget ==
    \E i \in Visits :
        /\ regs[i].executed /\ regs[i].ir.opcode = SPL
        /\ Len(regs[i].queue_before) >= 2
        /\ Len(regs[i].queue_before) + 1 > max_processes
        /\ Successor(i) # Target(i)
        /\ QueueAfter(i) = Tail(regs[i].queue_before) \o <<Successor(i)>>

\* The fields of IRA that the modifier of visit i projects as divisors
\* (A and AB: a; B and BA: b; F, X and I: both).
Divisors(i) ==
    IF regs[i].ir.modifier \in {M_A, M_AB} THEN {regs[i].ira.a_number}
    ELSE IF regs[i].ir.modifier \in {M_B, M_BA} THEN {regs[i].ira.b_number}
    ELSE {regs[i].ira.a_number, regs[i].ira.b_number}

\* C6: a DIV or MOD one of whose divisors (the projected fields of IRA) is
\* zero enqueues nothing and raises nothing.
ZeroDivisorKillsTask ==
    \A i \in Visits :
        (/\ regs[i].executed /\ regs[i].ir.opcode \in {DIV, MOD}
         /\ \E v \in Divisors(i) : IsZero(v)) =>
            /\ i = Len(regs) => err = NoErr
            /\ QueueAfter(i) = Tail(regs[i].queue_before)

\* The cell at pc + wpb of visit i as the step() left it, and the whole
\* effect of an opcode that enqueues the one task `next`: nothing raised
\* and the task appended behind those that were waiting.  Both are read
\* on the last visit of a step(), after which nothing else has run.
TargetAfter(i) ==
    CoreGet(core, Point2D(regs[i].pc.x + regs[i].wpb.x, regs[i].pc.y + regs[i].wpb.y))
EnqueuedOnly(i, next) ==
    /\ err = NoErr
    /\ QueueAfter(i) = Tail(regs[i].queue_before) \o <<next>>

\* The last visit of the last step() executed an instruction of `opcodes`.
LastExecuted(i, opcodes) ==
    /\ i = Len(regs)
    /\ regs[i].executed
    /\ regs[i].ir.opcode \in opcodes

\* The target cell t after a MOV with the given modifier from IRA, as C14
\* has it.
MovResult(modifier, t, ira) ==
    IF modifier = M_A THEN [t EXCEPT !.a_number = ira.a_number]
    ELSE IF modifier = M_B THEN [t EXCEPT !.b_number = ira.b_number]
    ELSE IF modifier = M_AB THEN [t EXCEPT !.b_number = ira.a_number]
    ELSE IF modifier = M_BA THEN [t EXCEPT !.a_number = ira.b_number]
    ELSE IF modifier = M_F
    THEN [t EXCEPT !.a_number = ira.a_number, !.b_number = ira.b_number]
    ELSE IF modifier = M_X
    THEN [t EXCEPT !.b_number = ira.a_number, !.a_number = ira.b_number]
    ELSE ira

\* C14: an executed MOV leaves the target cell as it was but for the
\* fields the modifier selects, which hold the values of IRA (with I the
\* cell equals IRA), and enqueues pc + step(1, s) and nothing else.
MovCopiesSelectedFields ==
    \A i \in Visits :
        LastExecuted(i, {MOV}) =>
            /\ TargetAfter(i) = MovResult(regs[i].ir.modifier, regs[i].target, regs[i].ira)
            /\ EnqueuedOnly(i, Successor(i))

\* The target cell t after an arithmetic opcode with the given modifier, as
\* the table of C15 has it (the table has no row for X).
ArithResult(modifier, opcode, t, ira, irb) ==
    IF modifier = M_A
    THEN [t EXCEPT !.a_number = ArithOp(opcode, irb.a_number, ira.a_number).val]
    ELSE IF modifier = M_B
    THEN [t EXCEPT !.b_number = ArithOp(opcode, irb.b_number, ira.b_number).val]
    ELSE IF modifier = M_AB
    THEN [t EXCEPT !.b_number = ArithOp(opcode, irb.b_number, ira.a_number).val]
    ELSE IF modifier = M_BA
    THEN [t EXCEPT !.a_number = ArithOp(opcode, irb.a_number, ira.b_number).val]
    ELSE [t EXCEPT !.a_number = ArithOp(opcode, irb.a_number, ira.a_number).val,
                   !.b_number = ArithOp(opcode, irb.b_number, ira.b_number).val]

\* No field of IRA that the modifier of visit i projects divides by zero
\* (Point2D division and remainder divide by x).
NoZeroDivisor(i) ==
    regs[i].ir.opcode \in {DIV, MOD} =>
        \A v \in Divisors(i) : ~(IsPoint(v) /\ v.x = 0)

\* C15: after an executed ADD, SUB, MUL, DIV or MOD with modifier A, B, AB,
\* BA, F or I (no divisor being zero) the fields of the target cell that
\* the modifier selects hold op(IRB field, IRA field), unnormalized, and
\* the rest of the cell is as it was.
ArithmeticByModifierTable ==
    \A i \in Visits :
        (/\ LastExecuted(i, {ADD, SUB, MUL, DIV, MOD})
         /\ regs[i].ir.modifier # M_X
         /\ NoZeroDivisor(i)) =>
            TargetAfter(i) = ArithResult(regs[i].ir.modifier, regs[i].ir.opcode,
                                         regs[i].target, regs[i].ira, regs[i].irb)

\* The fields of IRB that the modifier of visit i projects (A and BA: a;
\* B and AB: b; F, X and I: both).
ProjectedOfIRB(i) ==
    IF regs[i].ir.modifier \in {M_A, M_BA} THEN {regs[i].irb.a_number}
    ELSE IF regs[i].ir.modifier \in {M_B, M_AB} THEN {regs[i].irb.b_number}
    ELSE {regs[i].irb.a_number, regs[i].irb.b_number}

\* C16: an executed JMZ enqueues pc + rpa if every projected field of IRB
\* is zero on both axes and pc + step(1, s) if not; an executed JMN enqueues
\* pc + rpa if some projected field of IRB is not zero and pc + step(1, s)
\* if not; either enqueues that one task and nothing else.
JumpOnZeroOrNonZero ==
    \A i \in Visits :
        /\ LastExecuted(i, {JMZ}) =>
              EnqueuedOnly(i, IF \A v \in ProjectedOfIRB(i) : IsZero(v)
                              THEN Target(i) ELSE Successor(i))
        /\ LastExecuted(i, {JMN}) =>
              EnqueuedOnly(i, IF \E v \in ProjectedOfIRB(i) : ~IsZero(v)
                              THEN Target(i) ELSE Successor(i))

\* C16: a JMZ.F has found one field of IRB zero and the other zero in x
\* only, and has not jumped; target and successor are different cells.
JumpDecidedByYAxis ==
    \E i \in Visits :
        /\ LastExecuted(i, {JMZ})
        /\ regs[i].ir.modifier = M_F
        /\ regs[i].irb.a_number = Point2D(0, 0)
        /\ regs[i].irb.b_number = Point2D(0, 1)
        /\ Target(i) # Successor(i)
        /\ QueueAfter(i) = <<Successor(i)>>

\* The names of the fields that the modifier of a jump projects (A and BA:
\* a; B and AB: b; F, X and I: both).
JumpFields(modifier) ==
    IF modifier \in {M_A, M_BA} THEN {"a_number"}
    ELSE IF modifier \in {M_B, M_AB} THEN {"b_number"}
    ELSE {"a_number", "b_number"}

\* The cell t with each of `fields` decremented by one.
DjnResult(fields, t) ==
    [f \in DOMAIN t |-> IF f \in fields THEN Decrement(t[f]).val ELSE t[f]]

\* C17: an executed DJN leaves the target cell with every projected field
\* one less than it was and the rest as it was, and enqueues pc + rpa if a
\* projected field of IRB less one is not zero and pc + step(1, s) if not,
\* and nothing else.
DjnDecrementsAndJumps ==
    \A i \in Visits :
        LastExecuted(i, {DJN}) =>
            /\ TargetAfter(i) = DjnResult(JumpFields(regs[i].ir.modifier), regs[i].target)
            /\ EnqueuedOnly(i, IF \E f \in JumpFields(regs[i].ir.modifier) :
                                     ~IsZero(Decrement(regs[i].irb[f]).val)
                                THEN Target(i) ELSE Successor(i))

\* The successor of visit i that skips one instruction, as enqueue stores it.
Skip(i) ==
    trim(core, increment_by_stepping(regs[i].pc, 2, regs[i].ir.stepping).val)

\* The pairs <<field of IRA, field of IRB>> that the modifier of a
\* comparison projects (I apart, which takes the two instructions whole).
ComparedPairs(i) ==
    LET ira == regs[i].ira
        irb == regs[i].irb
        modifier == regs[i].ir.modifier
    IN  IF modifier = M_A THEN {<<ira.a_number, irb.a_number>>}
        ELSE IF modifier = M_B THEN {<<ira.b_number, irb.b_number>>}
        ELSE IF modifier = M_AB THEN {<<ira.a_number, irb.b_number>>}
        ELSE IF modifier = M_BA THEN {<<ira.b_number, irb.a_number>>}
        ELSE IF modifier = M_X
        THEN {<<ira.a_number, irb.b_number>>, <<ira.b_number, irb.a_number>>}
        ELSE {<<ira.a_number, irb.a_number>>, <<ira.b_number, irb.b_number>>}

\* The projected fields of IRA and IRB of visit i are equal.
ProjectedEqual(i) ==
    IF regs[i].ir.modifier = M_I THEN InstructionEq(regs[i].ira, regs[i].irb)
    ELSE \A uv \in ComparedPairs(i) : NumberEq(uv[1], uv[2])

\* C18: with every modifier an executed CMP or SEQ enqueues pc + step(2, s)
\* if the projected fields of IRA and IRB are equal and pc + step(1, s) if
\* not, an executed SNE pc + step(2, s) if they are not equal and
\* pc + step(1, s) if they are; nothing else is enqueued.
SkipOnEqualityOrInequality ==
    \A i \in Visits :
        /\ LastExecuted(i, {CMP, SEQ}) =>
              EnqueuedOnly(i, IF ProjectedEqual(i) THEN Skip(i) ELSE Successor(i))
        /\ LastExecuted(i, {SNE}) =>
              EnqueuedOnly(i, IF ~ProjectedEqual(i) THEN Skip(i) ELSE Successor(i))

\* u is strictly less than v: Point2D.__lt__, the order of the x
\* coordinates; the string '$' is less than nothing.
StrictlyLess(u, v) == IsPoint(u) /\ IsPoint(v) /\ u.x < v.x

\* C19: with every modifier, I included, an executed SLT enqueues
\* pc + step(2, s) if each projected field of IRA is strictly less than
\* the corresponding projected field of IRB and pc + step(1, s) if not,
\* and nothing else.
SltSkipsWhenAllLess ==
    \A i \in Visits :
        LastExecuted(i, {SLT}) =>
            EnqueuedOnly(i, IF \A uv \in ComparedPairs(i) : StrictlyLess(uv[1], uv[2])
                            THEN Skip(i) ELSE Successor(i))

\* The field of the cell at pc + value that an indirect mode adds, in the
\* core c in which the operand is evaluated: the a or b value, less
\* step(1, s) for a pre-decrement mode.
PointerField(c, pc, value, mode, stepping) ==
    LET cell == CoreGet(c, Point2D(pc.x + value.x, pc.y + value.y))
        field == IF mode \in {INDIRECT_A, PREDEC_A, POSTINC_A}
                 THEN cell.a_number ELSE cell.b_number
    IN  IF mode \in {PREDEC_A, PREDEC_B}
        THEN increment_by_stepping(field, -1, stepping).val
        ELSE field

\* The operand addresses a field that holds a Point2D (a never-written
\* cell holds a string in its a field).
AddressesPoint(c, pc, value, mode, stepping) ==
    \/ mode \in {IMMEDIATE, DIRECT}
    \/ IsPoint(PointerField(c, pc, value, mode, stepping))

\* The read and write point of an operand as C20 has them.
OperandPoint(c, pc, value, mode, stepping) ==
    IF mode = IMMEDIATE THEN Point2D(0, 0)
    ELSE IF mode = DIRECT THEN value
    ELSE PointAdd(value, PointerField(c, pc, value, mode, stepping))

\* C20: in a step() the A-operand of the first warrior visited is evaluated
\* in the core as the step() found it, and so is the B-operand if the
\* A-operand's mode changes no cell.  Where the addressed fields hold
\* Point2D values, the read point of A and the read and write points of B
\* are (0,0) for IMMEDIATE, the value for DIRECT and, for the six indirect
\* modes, the Point sum on both axes of the value and the field of
\* cell(pc + value).
OperandPointsAddBothAxes ==
    [][Len(regs') > 0 =>
          LET r == regs'[1]
          IN  AddressesPoint(core, r.pc, r.ir.a_number, r.ir.a_mode, r.ir.stepping) =>
                /\ r.rpa = OperandPoint(core, r.pc, r.ir.a_number, r.ir.a_mode,
                                        r.ir.stepping)
                /\ (/\ r.ir.a_mode \in {IMMEDIATE, DIRECT, INDIRECT_A, INDIRECT_B}
                    /\ AddressesPoint(core, r.pc, r.ir.b_number, r.ir.b_mode,
                                      r.ir.stepping)) =>
                      /\ r.rpb = OperandPoint(core, r.pc, r.ir.b_number, r.ir.b_mode,
                                              r.ir.stepping)
                      /\ r.wpb = r.rpb
      ]_vars

\* step(k, s) of the specification: the vector of k steps in the
\* direction of stepping s.
StepVector(k, s) ==
    IF s = STEP_NORMAL THEN Point2D(k, 0)
    ELSE IF s = STEP_VERTICAL THEN Point2D(0, k)
    ELSE IF s = STEP_BACKWARD THEN Point2D(-k, 0)
    ELSE Point2D(0, -k)

\* The opcodes that write no cell of the core.
NonWritingOpcodes == {DAT, JMP, JMZ, JMN, SPL, SLT, CMP, SEQ, SNE, NOP}

\* By how many steps an operand with the given value and mode changes
\* `field` of the cell of index k: -1 for a pre-decrement of that field of
\* cell(pc + value), +1 for a post-increment of it, 0 otherwise.
OperandBump(c, pc, value, mode, k, field) ==
    IF mode \in {IMMEDIATE, DIRECT, INDIRECT_A, INDIRECT_B} THEN 0
    ELSE IF point_to_index(c, Point2D(pc.x + value.x, pc.y + value.y)) # k THEN 0
    ELSE IF mode = PREDEC_A /\ field = "a_number" THEN -1
    ELSE IF mode = PREDEC_B /\ field = "b_number" THEN -1
    ELSE IF mode = POSTINC_A /\ field = "a_number" THEN 1
    ELSE IF mode = POSTINC_B /\ field = "b_number" THEN 1
    ELSE 0

\* C21: a step() that visits one warrior, whose instruction writes no cell
\* itself, leaves every field of every cell changed by step(-1, s) for
\* each pre-decrement and by step(+1, s) for each post-increment that the
\* instruction's two operands address to it, s being the instruction's
\* stepping, and unchanged if they address none to it.
IncDecFollowStepping ==
    [][(Len(regs') = 1 /\ regs'[1].ir.opcode \in NonWritingOpcodes) =>
          LET r == regs'[1]
          IN  \A k \in 0..(core.size - 1), field \in {"a_number", "b_number"} :
                  LET da == OperandBump(core, r.pc, r.ir.a_number, r.ir.a_mode, k, field)
                      db == OperandBump(core, r.pc, r.ir.b_number, r.ir.b_mode, k, field)
                      old == core.instructions[k][field]
                  IN  IF da = 0 /\ db = 0
                      THEN core'.instructions[k][field] = old
                      ELSE /\ IsPoint(old)
                           /\ core'.instructions[k][field]
                                  = PointAdd(old, StepVector(da + db, r.ir.stepping))
      ]_vars

\* The cell that the point pc + offset addresses in the core c.
CellAt(c, pc, offset) ==
    c.instructions[point_to_index(c, Point2D(pc.x + offset.x, pc.y + offset.y))]

\* C22: when the A operand of an executed instruction is a post-increment
\* and its B operand is immediate or direct, the B instruction register
\* that the opcode reads is the cell of pc + rpb as it was before the step:
\* the A post-increment is not yet in the core when IRB is captured.
PostIncrementsDeferred ==
    [][(/\ Len(regs') = 1
        /\ regs'[1].executed
        /\ regs'[1].ir.a_mode \in {POSTINC_A, POSTINC_B}
        /\ regs'[1].ir.b_mode \in {IMMEDIATE, DIRECT}) =>
          regs'[1].irb = CellAt(core, regs'[1].pc, regs'[1].rpb)
      ]_vars

\* C23: when an executed instruction that writes no cell itself has an A
\* operand without pre-decrement or post-increment and a pre-decrementing
\* B operand, the A instruction register is the cell of pc + rpa as the
\* step leaves it: the B pre-decrement is in the core when IRA is captured.
PreDecrementsBeforeCapture ==
    [][(/\ Len(regs') = 1
        /\ regs'[1].executed
        /\ regs'[1].ir.opcode \in NonWritingOpcodes
        /\ regs'[1].ir.a_mode \in {IMMEDIATE, DIRECT, INDIRECT_A, INDIRECT_B}
        /\ regs'[1].ir.b_mode \in {PREDEC_A, PREDEC_B}) =>
          regs'[1].ira = CellAt(core', regs'[1].pc, regs'[1].rpa)
      ]_vars

\* Points p and q address the same cell of the core.
SameCell(p, q) == point_to_index(core, p) = point_to_index(core, q)

\* The point k steps ahead of the pc of visit i in the direction of the
\* stepping of its instruction, and the point pc + rpa.
StepsAhead(i, k) == PointAdd(regs[i].pc, StepVector(k, regs[i].ir.stepping))
JumpPoint(i) == PointAdd(regs[i].pc, regs[i].rpa)

\* The tasks visit i has put behind those that were waiting.
Appended(i) ==
    SubSeq(QueueAfter(i), Len(regs[i].queue_before), Len(QueueAfter(i)))

\* C24: when the last visit of a step() executed an instruction and
\* nothing was raised, the tasks that were waiting are followed by the
\* one it enqueued: for MOV, ADD, SUB, MUL and NOP, and for a DIV or MOD
\* that enqueued a task, that task addresses the cell of pc + step(1, s);
\* so does the first task of SPL; the task of JMP addresses the cell of
\* pc + rpa; a conditional jump enqueues one of these two, and a
\* comparison pc + step(1, s) or pc + step(2, s).
SuccessorFollowsStepping ==
    \A i \in Visits :
        (i = Len(regs) /\ regs[i].executed /\ err = NoErr /\ regs[i].ir.opcode # DAT) =>
            LET op == regs[i].ir.opcode
                new == Appended(i)
            IN  /\ QueueAfter(i) = Tail(regs[i].queue_before) \o new
                /\ op \in {MOV, ADD, SUB, MUL, NOP} =>
                       Len(new) = 1 /\ SameCell(new[1], StepsAhead(i, 1))
                /\ op \in {DIV, MOD} /\ Len(new) > 0 =>
                       Len(new) = 1 /\ SameCell(new[1], StepsAhead(i, 1))
                /\ op = SPL => Len(new) >= 1 /\ SameCell(new[1], StepsAhead(i, 1))
                /\ op = JMP => Len(new) = 1 /\ SameCell(new[1], JumpPoint(i))
                /\ op \in {JMZ, JMN, DJN} =>
                       /\ Len(new) = 1
                       /\ \/ SameCell(new[1], StepsAhead(i, 1))
                          \/ SameCell(new[1], JumpPoint(i))
                /\ op \in {SLT, CMP, SEQ, SNE} =>
                       /\ Len(new) = 1
                       /\ \/ SameCell(new[1], StepsAhead(i, 1))
                          \/ SameCell(new[1], StepsAhead(i, 2))

\* C24: a MOV at (0, 0) of a 3 x 3 core with stepping BACKWARD has enqueued
\* the last cell of the core, (2, 2).
SuccessorWrapsBackward ==
    /\ core.size = 9
    /\ \E i \in Visits :
           /\ LastExecuted(i, {MOV})
           /\ regs[i].ir.stepping = STEP_BACKWARD
           /\ regs[i].pc = Point2D(0, 0)
           /\ err = NoErr
           /\ QueueAfter(i) = <<Point2D(2, 2)>>

\* The I_WRITE events of warrior n, in the order of their emission.
WritesOf(n) ==
    LET Mine(e) == e.warrior = n /\ e.event_type = EVENT_I_WRITE
    IN  SelectSeq(events, Mine)

\* The number of instructions of the warriors 1..n.
RECURSIVE InstructionsUpTo(_)
InstructionsUpTo(n) ==
    IF n = 0 THEN 0 ELSE Len(warriors[n].instructions) + InstructionsUpTo(n - 1)

\* Some instruction other than the j-th of warrior n belongs, relative
\* to its warrior's base, to the cell of base + r of that instruction.
CellShared(n, j, base) ==
    \E n2 \in 1..Len(warriors) :
        \E j2 \in 1..Len(warriors[n2].instructions) :
            /\ <<n2, j2>> # <<n, j>>
            /\ SameCell(PointAdd(base[n2], warriors[n2].instructions[j2].pos),
                        PointAdd(base[n], warriors[n].instructions[j].pos))

\* C25: right after the load, with base the point of each warrior's first
\* task less its start: warrior k of n has its base at the linear position
\* k * (size div n) plus an offset within the random range (k counted from
\* 0), one I_WRITE event has been emitted per instruction, the event of
\* the instruction at relative position r addresses the cell of index
\* point_to_index(base + r), and that cell holds the instruction unless
\* another instruction belongs there too.
LoadPlacesWarriors ==
    (nsteps = 0 /\ query.op = "MARS") =>
        LET base == [n \in 1..Len(warriors) |->
                        PointSub(warriors[n].task_queue[1], warriors[n].start)]
            space == core.size \div Len(warriors)
        IN  /\ Len(events) = InstructionsUpTo(Len(warriors))
            /\ \A n \in 1..Len(warriors) :
                   LET linear == base[n].y * core.width + base[n].x
                       range == IF query.randomize /\ max_offset(Mars, n) > 0
                                THEN max_offset(Mars, n) ELSE 0
                   IN  /\ base[n].x \in 0..(core.width - 1)
                       /\ linear - (n - 1) * space \in 0..range
                       /\ Len(WritesOf(n)) = Len(warriors[n].instructions)
                       /\ \A j \in 1..Len(warriors[n].instructions) :
                              LET r == warriors[n].instructions[j].pos
                              IN  /\ SameCell(WritesOf(n)[j].address, PointAdd(base[n], r))
                                  /\ \/ CellShared(n, j, base)
                                     \/ CoreGet(core, PointAdd(base[n], r))
                                            = warriors[n].instructions[j].ins

\* The base of every warrior after a load with the given randomize: the
\* point of its only task less its start.
BaseOf(n) == PointSub(warriors[n].task_queue[1], warriors[n].start)

\* The base of warrior n is at the linear position (n - 1) * (size div
\* warriors) plus an offset within the range of the random offsets.
BaseAdmissible(n, randomize) ==
    LET linear == BaseOf(n).y * core.width + BaseOf(n).x
        range == IF randomize /\ max_offset(Mars, n) > 0 THEN max_offset(Mars, n) ELSE 0
    IN  /\ BaseOf(n).x \in 0..(core.width - 1)
        /\ linear - (n - 1) * (core.size \div Len(warriors)) \in 0..range

\* No two instructions of the loaded warriors belong to the same cell.
NoOverlap ==
    LET base == [n \in 1..Len(warriors) |-> BaseOf(n)]
    IN  \A n \in 1..Len(warriors) :
            \A j \in 1..Len(warriors[n].instructions) : ~CellShared(n, j, base)

\* The instruction ins as reset()'s load writes it to the core: in
\* energy-mode the copy carries the energy 0 // len(instructions).
Reloads(ins) == IF query.total_energy > 0 THEN WithEnergy(ins, 0) ELSE ins

\* C26: right after reset(ins), in either mode, nothing was raised, every
\* warrior's task queue is the single task base + start with an admissible
\* base, every cell that the load wrote no instruction to equals ins, and,
\* when no two instructions belong to the same cell, every instruction of
\* every warrior is in some cell of the core.
ResetRestoresLoad ==
    (query.op = "reset" /\ nsteps = 0) =>
        /\ err = NoErr
        /\ \A n \in 1..Len(warriors) :
               Len(warriors[n].task_queue) = 1 /\ BaseAdmissible(n, TRUE)
        /\ \A k \in 0..(core.size - 1) :
               (\A e \in 1..Len(events) : point_to_index(core, events[e].address) # k)
                   => core.instructions[k] = query.ins
        /\ NoOverlap =>
               \A n \in 1..Len(warriors) :
                   \A j \in 1..Len(warriors[n].instructions) :
                       \E k \in 0..(core.size - 1) :
                           core.instructions[k] = Reloads(warriors[n].instructions[j].ins)

\* The MARS holds the single warrior JMP $0, $0, constructed with
\* total_energy e.
JmpAloneWithEnergy(e) ==
    /\ Len(warriors) = 1
    /\ warriors[1].instructions
           = Program1(Ins(JMP, M_B, DIRECT, 0, DIRECT, 0)).instructions
    /\ query.total_energy = e

\* C27: JMP $0, $0 alone, its cell loaded with energy 10: the warrior has
\* a task after each of the first 10 steps, the cell's energy is 0 after
\* the 10th, and after the 11th the task queue is empty and the energy
\* still 0.
JmpRunsTenSteps ==
    JmpAloneWithEnergy(10) =>
        /\ nsteps = 0 => CoreGet(core, Point2D(0, 0)).energy = 10
        /\ nsteps \in 1..10 => Len(warriors[1].task_queue) > 0
        /\ nsteps = 10 => CoreGet(core, Point2D(0, 0)).energy = 0
        /\ nsteps = 11 =>
               /\ Len(warriors[1].task_queue) = 0
               /\ CoreGet(core, Point2D(0, 0)).energy = 0

\* Visit i of the step() that leads to the next state found no energy in
\* the cell of its task: the instruction it read from the core is without
\* energy, and it was not executed.
Starved(i) == regs'[i].ir.energy = 0 /\ ~regs'[i].executed

\* Nothing was executed for the warrior of such a visit: it has emitted
\* no EXECUTED event, and a step() that visits only this warrior leaves
\* the core as it was.
NothingExecuted(i) ==
    /\ \A e \in 1..Len(events') :
           ~(events'[e].warrior = regs'[i].warrior /\ events'[e].event_type = EVENT_EXECUTED)
    /\ Len(regs') = 1 => core' = core

\* C28 as claimed: a task that points at a cell without energy is still
\* in its warrior's queue after the step, which executed nothing for it.
StarvedTaskStays ==
    [][\A i \in 1..Len(regs') :
          Starved(i) =>
              /\ warriors'[regs'[i].warrior].task_queue = regs'[i].queue_before
              /\ NothingExecuted(i)
      ]_vars

\* C28: a task that points at a cell without energy is taken from its
\* warrior's queue and not put back, and the step executes nothing for it,
\* not even the evaluation of an operand.
StarvedTaskIsDropped ==
    [][\A i \in 1..Len(regs') :
          Starved(i) =>
              /\ warriors'[regs'[i].warrior].task_queue = Tail(regs'[i].queue_before)
              /\ regs'[i].ira = None
              /\ NothingExecuted(i)
      ]_vars

\* C28: a warrior whose only task pointed at a MOV without energy has
\* lost it.
StarvedWarriorDied ==
    \E i \in Visits :
        /\ regs[i].ir.opcode = MOV
        /\ regs[i].ir.energy = 0
        /\ regs[i].ira = None
        /\ Len(regs[i].queue_before) = 1
        /\ warriors[regs[i].warrior].task_queue = <<>>

\* The sum of the energies of the cells 0..k of the core c, and of the
\* cells whose indices are in the set S.
RECURSIVE EnergyUpTo(_, _)
EnergyUpTo(c, k) ==
    IF k < 0 THEN 0 ELSE c.instructions[k].energy + EnergyUpTo(c, k - 1)

RECURSIVE EnergyOf(_, _)
EnergyOf(c, S) ==
    IF S = {} THEN 0
    ELSE LET k == CHOOSE k \in S : TRUE
         IN  c.instructions[k].energy + EnergyOf(c, S \ {k})

\* C29: no step() increases the sum of the energies of all cells, and a
\* step() whose only visit executed a MOV leaves the sum of the energies
\* of the source cell, at pc + rpa, and the target cell, at pc + wpb, as
\* it was.
EnergyNeverGrows ==
    [][/\ EnergyUpTo(core', core.size - 1) <= EnergyUpTo(core, core.size - 1)
       /\ (Len(regs') = 1 /\ regs'[1].executed /\ regs'[1].ir.opcode = MOV) =>
              LET r == regs'[1]
                  cells == {point_to_index(core, PointAdd(r.pc, r.rpa)),
                            point_to_index(core, PointAdd(r.pc, r.wpb))}
              IN  EnergyOf(core', cells) = EnergyOf(core, cells)
      ]_vars

\* The match is over: step() has raised, a task queue is empty, or
\* MaxCycles steps were made.
MatchOver ==
    \/ err # NoErr
    \/ nsteps = MaxCycles
    \/ \E n \in 1..Len(warriors) : warriors[n].task_queue = <<>>

\* C30: when the match of Dwarf (first warrior) against Sitting Duck
\* (second warrior) is over, nothing was raised, the Sitting Duck has no
\* task and the Dwarf has exactly one.
DwarfOutlivesSittingDuck ==
    MatchOver =>
        /\ err = NoErr
        /\ warriors[2].task_queue = <<>>
        /\ Len(warriors[1].task_queue) = 1

\* The rounds of the match that have come to their end.
RoundsPlayed == IF query.at = "cycle" THEN query.round - 1 ELSE query.round

\* The outcome the last round gave the warrior n, who ended it with the
\* warriors ws: a loss without a task, a win at a stop with at most one
\* warrior (none, of a single one) alive, a tie otherwise.
OutcomeOf(n, ws) ==
    IF ws[n].task_queue = <<>> THEN "losses"
    ELSE IF Alive(ws) <= (IF Len(ws) >= 2 THEN 1 ELSE 0) THEN "wins"
    ELSE "ties"

\* C31: a round makes at most `cycles` steps; while two or more warriors
\* play a round that has made a step, at least two of them have a task;
\* the script ends with its results, and every warrior's wins, ties and
\* losses add up to the rounds played; the last round adds one to the
\* outcome of each warrior, and to nothing else.
MatchGivesOutcomes ==
    /\ [](/\ nsteps <= query.cycles
          /\ query.at # "raised"
          /\ (query.at = "cycle" /\ Len(warriors) >= 2 /\ nsteps > 0)
                 => Alive(warriors) >= 2
          /\ \A n \in 1..Len(warriors) :
                 query.score[n].wins + query.score[n].ties + query.score[n].losses
                     = RoundsPlayed)
    /\ [][(query.at = "cycle" /\ query'.at = "done") =>
             \A n \in 1..Len(warriors) :
                 query'.score[n] =
                     [query.score[n] EXCEPT ![OutcomeOf(n, warriors')] = @ + 1]
         ]_vars

\* expected_positions of the test: the points that 7 * i addresses.
ExpectedPositions ==
    << Point2D(0, 0), Point2D(7, 0), Point2D(4, 1), Point2D(1, 2), Point2D(8, 2),
       Point2D(5, 3), Point2D(2, 4), Point2D(9, 4), Point2D(6, 5), Point2D(3, 6),
       Point2D(0, 7), Point2D(7, 7), Point2D(4, 8), Point2D(1, 9), Point2D(8, 9),
       Point2D(5, 0), Point2D(2, 1), Point2D(9, 1), Point2D(6, 2), Point2D(3, 3),
       Point2D(0, 4) >>

\* The cell (0,0) of the core after i iterations.
OrbitAt(i) ==
    /\ CoreGet(core, Point2D(0, 0)).opcode = ADD
    /\ CoreGet(core, Point2D(0, 0)).a_number = Point2D(7, 0)
    /\ CoreGet(core, Point2D(0, 0)).b_number = Point2D(7 * i, 0)
    /\ point_to_index(core, CoreGet(core, Point2D(0, 0)).b_number) = (7 * i) % 100
    /\ point_to_index(core, ExpectedPositions[i + 1]) = (7 * i) % 100

\* C32: in the 10 x 10 core, after i = 0..20 iterations of ADD.AB #7 and
\* JMP, the B field of the cell (0,0) is the unnormalized 7 * i, it
\* addresses the cell of index 7 * i mod 100, which is the i-th of the
\* expected points, and the A field is 7; nothing is raised and the
\* warrior has exactly one task after every step.
AddOrbit ==
    /\ err = NoErr
    /\ Len(warriors[1].task_queue) = 1
    /\ (nsteps % 2 = 0 /\ nsteps \div 2 <= 20) => OrbitAt(nsteps \div 2)

\* C32: the B field has left the core's range: after 20 iterations it is
\* 140 and addresses the cell of index 40, the point (0,4).
OrbitPastTheCore ==
    /\ nsteps = 40
    /\ CoreGet(core, Point2D(0, 0)).b_number = Point2D(140, 0)
    /\ point_to_index(core, Point2D(140, 0)) = point_to_index(core, Point2D(0, 4))

\* The warrior n had a turn in the step() that leads to the next state.
Visited(n) == \E i \in 1..Len(regs') : regs'[i].warrior = n

\* p is q without its first task, followed by at most two new tasks.
PoppedAndAppended(p, q) ==
    /\ Len(p) \in (Len(q) - 1)..(Len(q) + 1)
    /\ \A k \in 1..(Len(q) - 1) : p[k] = q[k + 1]

\* C33: in a step(), a warrior's turn finds its queue as the step found
\* it; after the step the queue of a warrior that had no turn is as it
\* was, and that of a warrior that had one is its old queue without the
\* first task, followed by what its own turn appended; so an empty queue
\* stays empty.
QueueOwnedByWarrior ==
    [][/\ \A i \in 1..Len(regs') :
              /\ regs'[i].queue_before = warriors[regs'[i].warrior].task_queue
              /\ PoppedAndAppended(warriors'[regs'[i].warrior].task_queue,
                                   regs'[i].queue_before)
       /\ \A n \in 1..Len(warriors) :
              /\ ~Visited(n) => warriors'[n].task_queue = warriors[n].task_queue
              /\ warriors[n].task_queue = <<>> => warriors'[n].task_queue = <<>>
      ]_vars

\* C33: a warrior that was dead before the last step() is still dead
\* after it, in which a warrior behind it in the list executed an
\* instruction that appended a task to its own queue.
DeadWhileOthersRun ==
    \E n \in 1..Len(warriors) :
        /\ warriors[n].task_queue = <<>>
        /\ \A i \in Visits : regs[i].warrior # n
        /\ \E i \in Visits :
               /\ regs[i].warrior > n
               /\ regs[i].executed
               /\ warriors[regs[i].warrior].task_queue # <<>>

\* C34: every cell of a newly constructed core equals the
\* initial_instruction passed to the constructor, or DAT.F $0, $0 when
\* none was passed, and assigning to a field of one cell changes no other
\* cell.
CoreFilledWithInitial ==
    /\ [](query.op = "init" =>
             \A k \in 0..(core.size - 1) :
                 InstructionEq(core.instructions[k],
                               IF query.initial = None
                               THEN Instruction(DAT, M_F, STEP_NORMAL, DIRECT, Point2D(0, 0),
                                                DIRECT, Point2D(0, 0))
                               ELSE query.initial))
    /\ [][query'.op = "modify" =>
             \A k \in 0..(core.size - 1) :
                 k # point_to_index(core, query.point) =>
                     core'.instructions[k] = core.instructions[k]
         ]_vars

\* The assignments of do_arithmetic made one after the other to the cell
\* t from the captured ira and irb: the value of the k-th, and the cell
\* after all of them.
PlannedValue(k, opcode, modifier, ira, irb) ==
    ArithOp(opcode, irb[ArithPlan(modifier)[k][2]], ira[ArithPlan(modifier)[k][3]])

ArithFromCaptured(opcode, modifier, t, ira, irb) ==
    LET first == [t EXCEPT ![ArithPlan(modifier)[1][1]] =
                      PlannedValue(1, opcode, modifier, ira, irb).val]
    IN  IF Len(ArithPlan(modifier)) = 1 THEN first
        ELSE [first EXCEPT ![ArithPlan(modifier)[2][1]] =
                  PlannedValue(2, opcode, modifier, ira, irb).val]

\* Visit i is the last of the step(), executed one of opcodes, and none
\* of its computations or assignments raised or divided by zero.
ComputedAll(i, opcodes) ==
    /\ LastExecuted(i, opcodes)
    /\ err = NoErr
    /\ IsPoint(regs[i].ira.a_number) /\ IsPoint(regs[i].ira.b_number)
    /\ regs[i].ir.opcode # MOV =>
           \A k \in 1..Len(ArithPlan(regs[i].ir.modifier)) :
               PlannedValue(k, regs[i].ir.opcode, regs[i].ir.modifier,
                            regs[i].ira, regs[i].irb).err = NoErr

\* C35: the cell an executed MOV, ADD, SUB, MUL, DIV or MOD leaves at
\* pc + wpb is computed from the cell as it was and the captured IRA and
\* IRB alone, whatever the opcode has written in between, also when IRA,
\* IRB and the target are one cell.
CapturedByValue ==
    \A i \in Visits :
        /\ ComputedAll(i, {MOV}) =>
               TargetAfter(i) = MovResult(regs[i].ir.modifier, regs[i].target, regs[i].ira)
        /\ ComputedAll(i, {ADD, SUB, MUL, DIV, MOD}) =>
               TargetAfter(i) = ArithFromCaptured(regs[i].ir.opcode, regs[i].ir.modifier,
                                                  regs[i].target, regs[i].ira, regs[i].irb)

\* C35: an ADD.X whose A and B operands address the cell it writes to,
\* a cell with different A and B fields, has added the captured B field
\* to the A field, not the B field it had just written.
AddXOnOneCell ==
    \E i \in Visits :
        /\ ComputedAll(i, {ADD})
        /\ regs[i].ir.modifier = M_X
        /\ regs[i].rpa = regs[i].wpb /\ regs[i].rpb = regs[i].wpb
        /\ regs[i].ira = regs[i].target /\ regs[i].irb = regs[i].target
        /\ TargetAfter(i).a_number = PointAdd(regs[i].irb.a_number, regs[i].ira.b_number)
        /\ TargetAfter(i).b_number # regs[i].ira.b_number
        /\ TargetAfter(i).a_number
               # PointAdd(regs[i].irb.a_number, TargetAfter(i).b_number)

\* Visit i is the last of the step() and executed a DIV or MOD one of
\* whose divisions, taken from the captured operands, has a zero divisor.
ZeroDivisorAt(i) ==
    /\ LastExecuted(i, {DIV, MOD})
    /\ IsPoint(regs[i].ira.a_number) /\ IsPoint(regs[i].ira.b_number)
    /\ IsPoint(regs[i].irb.a_number) /\ IsPoint(regs[i].irb.b_number)
    /\ \E k \in 1..Len(ArithPlan(regs[i].ir.modifier)) :
           PlannedValue(k, regs[i].ir.opcode, regs[i].ir.modifier,
                        regs[i].ira, regs[i].irb).err = "ZeroDivisionError"

\* C36: a DIV or MOD that kills its task because of a zero divisor leaves
\* the cell at pc + wpb as it was before the opcode executed, under every
\* modifier.
ZeroDivisorLeavesTarget ==
    \A i \in Visits : ZeroDivisorAt(i) => TargetAfter(i) = regs[i].target

\* The relative addresses added to a program counter in C37.
MaxRelative == 3

RelativeOffsets ==
    {Point2D(x, y) : x \in (-MaxRelative)..MaxRelative, y \in (-MaxRelative)..MaxRelative}

\* The cell reached from the trimmed point with offset q is the one reached
\* from the point itself.
SameCellFromTrimmed(q) ==
    point_to_index(core, Point2D(query.result.x + q.x, query.result.y + q.y))
        = point_to_index(core, Point2D(query.point.x + q.x, query.point.y + q.y))

\* C37: for all points p and q, point_to_index(trim(p) + q) equals
\* point_to_index(p + q).
RelativeFromTrimmed ==
    query.op = "trim" => \A q \in RelativeOffsets : SameCellFromTrimmed(q)

\* C37, amended: on a core of one row or of one column, for all points p
\* and q, point_to_index(trim(p) + q) equals point_to_index(p + q).
RelativeFromTrimmedOneRow ==
    (query.op = "trim" /\ (core.height = 1 \/ core.width = 1)) =>
        \A q \in RelativeOffsets : SameCellFromTrimmed(q)

\* C37: a point outside a one-row core of several cells on both axes has
\* been trimmed to another point, and the offsets lead to the same cells.
TrimmedOnOneRow ==
    /\ query.op = "trim"
    /\ core.height = 1 /\ core.width > MaxRelative
    /\ query.point.x >= core.width /\ query.point.y < 0
    /\ query.result # query.point
    /\ \A q \in RelativeOffsets : SameCellFromTrimmed(q)

\* Every warrior is a program in one row of at most size div n cells.
SingleRowPrograms ==
    \A n \in 1..Len(warriors) :
        /\ get_size(warriors[n]).y = 1
        /\ Len(warriors[n].instructions) <= core.size \div Len(warriors)

\* C38: right after a load without randomization of single-row programs
\* of at most size div n cells, no two instructions, of one warrior or of
\* two, have been written to the same cell.
LoadWritesCellsOnce ==
    (nsteps = 0 /\ query.op = "MARS" /\ ~query.randomize /\ SingleRowPrograms) =>
        \A n \in 1..Len(warriors), n2 \in 1..Len(warriors) :
            \A j \in 1..Len(WritesOf(n)), j2 \in 1..Len(WritesOf(n2)) :
                <<n, j>> # <<n2, j2>> =>
                    ~SameCell(WritesOf(n)[j].address, WritesOf(n2)[j2].address)

\* The MARS as its construction without randomization leaves it, on a new
\* core of the same shape with the same warriors and the same
\* total_energy; in energy-mode the cells of the new core carry the
\* energy of the instruction reset() was called with.
PostConstruction ==
    IF query.total_energy > 0
    THEN MARSInitEnergy(core.size, core.width, warriors, minimum_separation, FALSE,
                        max_processes, [n \in 1..Len(warriors) |-> 0],
                        query.total_energy, query.ins.energy)
    ELSE MARSInit(CoreInit(DEFAULT_INITIAL_INSTRUCTION, core.size, core.width, 0, 0).core,
                  warriors, minimum_separation, FALSE, max_processes,
                  [n \in 1..Len(warriors) |-> 0])

\* reset() was called without an argument.
ResetByDefault ==
    query.ins = IF query.total_energy > 0
                THEN WithEnergy(DEFAULT_INITIAL_INSTRUCTION, query.ins.energy)
                ELSE DEFAULT_INITIAL_INSTRUCTION

\* C39: right after reset(), called after any number of steps on a MARS
\* constructed with randomize = false and any total_energy, the warriors
\* with their positions and task queues and the cells of the core, each
\* with its energy, are those the construction left.
ResetRestoresConstruction ==
    (query.op = "reset" /\ nsteps = 0 /\ ResetByDefault /\ ~query.constructed) =>
        /\ core = PostConstruction.core
        /\ warriors = PostConstruction.warriors

\* The queue q of warrior n is served from its front by the step() that
\* leads to the next state: its first task is the one executed, and the
\* others move up one place, in their order, ahead of what is appended.
ServedFromFront(n, q) ==
    /\ \E i \in 1..Len(regs') :
           /\ regs'[i].warrior = n
           /\ regs'[i].pc = Head(q)
           /\ regs'[i].executed
    /\ Len(warriors'[n].task_queue) >= Len(q) - 1
    /\ \A k \in 1..(Len(q) - 1) : warriors'[n].task_queue[k] = q[k + 1]

\* C40: every step() executes the first task of each non-empty queue and
\* moves the others up one place with the successors behind them, so the
\* task at position i (from 0) is executed in the (i+1)-th following
\* step(), within max_processes steps.
TasksServedInFifoOrder ==
    [][\A n \in 1..Len(warriors) :
          warriors[n].task_queue # <<>> =>
              /\ ServedFromFront(n, warriors[n].task_queue)
              /\ Len(warriors[n].task_queue) <= max_processes
      ]_vars

====
